---------------------------- MODULE Spec2Model ----------------------------
(***************************************************************************)
(* Grid/Bollinger strategy engine of src/src/strategy.py with the          *)
(* collaborators it drives: GridState and level_qty (grid.py), the band    *)
(* indicator (indicators.py), the state store (state.py) and the start-up  *)
(* sequence and session-limit closure of runner.py.                        *)
(*                                                                         *)
(* Numbers.  Prices are integers in units of one price tick.  Quantities   *)
(* are integers in units of half a quantity step, so that the "half a      *)
(* step" tolerance of the take-profit check is one unit.  Time is an       *)
(* integer number of minutes.  Ratios that the code keeps as floats        *)
(* (position drawdown) are kept as exact fractions <<num, den>>.           *)
(* Optional values are sequences: <<>> is Python's None, <<v>> is v.       *)
(* Logging is left out; the read-only exchange queries made only for log   *)
(* output are left out with it.                                            *)
(***************************************************************************)
EXTENDS Integers, Sequences, FiniteSets, TLC

\* ------------------------------------------------------------------ bounds
\* Largest value of the clock; Advance stops there.
MaxTime == 2
\* Levels of the grid (SymbolConfig.max_levels).
MaxLevels == 3

\* ----------------------------------------------------- configuration values
\* BollingerConfig.period and .stddev
Period == 3
StdDev == 1
\* SymbolConfig.grid_spacing_usd, in price ticks
GridSpacing == 2
\* GridShapeConfig: base_qty, repeat_every, multiplier = MultNum / MultDen
BaseQty == 2
RepeatEvery == 1
MultNum == 3
MultDen == 2
\* SymbolConfig.min_qty_step (two quantity units), min_notional_usd
QtyStep == 2
MinNotional == 20
\* cfg.target_profit_usd, cfg.lot_size, cfg.price_tick_size read by _tp_price
TargetProfit == 3
LotSize == 2
PriceTick == 1
\* SymbolConfig.cooldown_minutes of the runs that configure a cooldown
CooldownMinutes == 1
\* SessionLimits.max_grids and .max_gain_usd
MaxGrids == 2
MaxGain == 5

\* Prices the exchange may quote (ticker, mark, fills, average entry).
Prices == {10, 12}

\* ------------------------------------------------------------------- state
VARIABLES
    cfg,      \* the loaded configuration that varies between runs: cooldown_minutes
    pc,       \* "down": no process; "loop": main() is in its polling loop
    now,      \* time.time()
    state,    \* GridBollingerStrategy.state
    bb,       \* GridBollingerStrategy.bb
    drain,    \* GridBollingerStrategy.drain_mode
    session,  \* main()'s session_grids and session_gain
    file,     \* the state file of StateStore
    obs,      \* what the last operation was given and what it did
    twin      \* a second engine fed the same inputs (SpecDrain), else NoTwin

vars == << cfg, pc, now, state, bb, drain, session, file, obs, twin >>

\* ---------------------------------------------------------------- optionals
None == << >>
Some(x) == << x >>
Val(o) == o[1]
IsNone(o) == o = << >>

Abs(x) == IF x < 0 THEN -x ELSE x
Max(a, b) == IF a >= b THEN a ELSE b
Min(a, b) == IF a <= b THEN a ELSE b

\* ------------------------------------------------------------------ utils.py
\* math.ceil(num / den) for den > 0
Ceil(num, den) == -((-num) \div den)

\* round_up(value, step) with value = num / den
round_up(num, den, step) ==
    IF step <= 0 THEN num \div den
    ELSE Ceil(num, den * step) * step

\* Python's round(): nearest integer to num / den (den > 0), ties to even.
PyRound(num, den) ==
    LET fl == num \div den
        twice == 2 * (num - fl * den)
    IN  IF twice < den THEN fl
        ELSE IF twice > den THEN fl + 1
        ELSE IF fl % 2 = 0 THEN fl ELSE fl + 1

\* round_to_step(value, step) with value = num / den
round_to_step(num, den, step) ==
    IF step <= 0 THEN num \div den
    ELSE PyRound(num, den * step) * step

\* ------------------------------------------------------------------- grid.py
\* GridState() : the dataclass defaults
EmptyState ==
    [ direction |-> "none",
      last_entry_price |-> None,
      next_entry_price |-> None,
      levels_filled |-> 0,
      cooldown_until_ts |-> None,
      basket_id |-> 0,
      basket_start_balance |-> None,
      max_volume |-> 0,
      worst_drawdown |-> <<0, 1>>,
      basket_open_ts |-> None,
      entry_order_ids |-> << >>,
      tp_order_ids |-> << >> ]

\* GridState.reset
reset(s) == EmptyState

RECURSIVE level_qty_loop(_, _, _, _, _, _, _)
level_qty_loop(qty, current_level, level, repeat_every, mnum, mden, step) ==
    IF current_level < level
    THEN level_qty_loop(
             IF current_level % repeat_every = 0
             THEN round_up(qty * mnum, mden, step) ELSE qty,
             current_level + 1, level, repeat_every, mnum, mden, step)
    ELSE qty

\* a level_qty whose level counter starts at 0
level_qty_FromZero(level, base_qty, repeat_every, mnum, mden, step) ==
    level_qty_loop(base_qty, 0, level, repeat_every, mnum, mden, step)

\* level_qty(level, base_qty, repeat_every, multiplier, step)
level_qty(level, base_qty, repeat_every, mnum, mden, step) ==
    level_qty_loop(base_qty, 1, level, repeat_every, mnum, mden, step)

\* level_qty with the configured grid shape, as every caller passes it
LevelQty(level) == level_qty(level, BaseQty, RepeatEvery, MultNum, MultDen, QtyStep)

RECURSIVE CumQty(_)
CumQty(level) == IF level <= 0 THEN 0 ELSE CumQty(level - 1) + LevelQty(level)

\* ------------------------------------------------------------- indicators.py
\* BollingerBands.__init__
NewBB == [ window |-> << >>, sum |-> 0, sumsq |-> 0 ]

\* an add that never drops the oldest sample
bb_add_NoEvict(b, value) ==
    [ window |-> Append(b.window, value), sum |-> b.sum + value,
      sumsq |-> b.sumsq + value * value ]

\* an add that drops the oldest sample but leaves its square in the running
\* sum of squares
bb_add_StaleSumSq(b, value) ==
    LET full == Len(b.window) = Period
        oldest == IF full THEN b.window[1] ELSE 0
        w1 == IF full THEN Tail(b.window) ELSE b.window
    IN  [ window |-> Append(w1, value), sum |-> b.sum - oldest + value,
          sumsq |-> b.sumsq + value * value ]

\* BollingerBands.add
bb_add(b, value) ==
    LET full == Len(b.window) = Period
        oldest == IF full THEN b.window[1] ELSE 0
        w1 == IF full THEN Tail(b.window) ELSE b.window
        s1 == IF full THEN b.sum - oldest ELSE b.sum
        q1 == IF full THEN b.sumsq - oldest * oldest ELSE b.sumsq
    IN  [ window |-> Append(w1, value), sum |-> s1 + value, sumsq |-> q1 + value * value ]

\* BollingerBands.ready
bb_ready(b) == Len(b.window) = Period

\* BollingerBands.bands: None until ready.  With mean = sum / period and
\* variance = sumsq / period - mean^2, the bands are
\*     lower = (sum - sqrt(kvar)) / period,  upper = (sum + sqrt(kvar)) / period
\* where kvar = stddev^2 * max(period * sumsq - sum^2, 0); the record keeps sum
\* and kvar, which determine the three numbers exactly.
bb_bands(b) ==
    IF ~bb_ready(b) THEN None
    ELSE Some([ sum |-> b.sum,
                kvar |-> StdDev * StdDev * Max(Period * b.sumsq - b.sum * b.sum, 0) ])

\* a breach test that also fires on the band itself
AboveUpper_OnBand(price, bands) ==
    LET d == Period * price - bands.sum IN d >= 0 /\ d * d >= bands.kvar

\* price > upper  (on_price, the short entry test)
AboveUpper(price, bands) ==
    LET d == Period * price - bands.sum IN d > 0 /\ d * d > bands.kvar

\* price < lower  (on_price, the long entry test)
BelowLower(price, bands) ==
    LET d == Period * price - bands.sum IN d < 0 /\ d * d > bands.kvar

\* seed_indicator: feeds the last `period` closes
RECURSIVE seed_indicator(_, _)
seed_indicator(b, closes) ==
    IF closes = << >> THEN b
    ELSE IF Len(closes) > Period THEN seed_indicator(b, Tail(closes))
    ELSE seed_indicator(bb_add(b, Head(closes)), Tail(closes))

\* ---------------------------------------------------------------- fractions
RECURSIVE Gcd(_, _)
Gcd(a, b) == IF b = 0 THEN a ELSE Gcd(b, a % b)

\* num / den (den > 0) in lowest terms
Frac(num, den) ==
    LET g == Gcd(Abs(num), den) IN IF g = 0 THEN <<0, 1>> ELSE << num \div g, den \div g >>

FracLess(x, y) == x[1] * y[2] < y[1] * x[2]

\* ------------------------------------------------------------------ state.py
\* GridState.to_dict: the dict handed to json.dump
to_dict(s) ==
    [ direction |-> s.direction,
      last_entry_price |-> s.last_entry_price,
      next_entry_price |-> s.next_entry_price,
      levels_filled |-> s.levels_filled,
      cooldown_until_ts |-> s.cooldown_until_ts,
      basket_id |-> s.basket_id,
      basket_start_balance |-> s.basket_start_balance,
      max_volume |-> s.max_volume,
      worst_drawdown |-> s.worst_drawdown,
      basket_open_ts |-> s.basket_open_ts,
      entry_order_ids |-> s.entry_order_ids,
      tp_order_ids |-> s.tp_order_ids ]

\* JSON values: null, a number, a string, an array
JNull == [ t |-> "null" ]
JNum(x) == [ t |-> "num", v |-> x ]
JStr(x) == [ t |-> "str", v |-> x ]
JArr(sq) == [ t |-> "arr", v |-> sq ]
\* an Optional[float]: None is written as null
JOpt(o) == IF IsNone(o) THEN JNull ELSE JNum(Val(o))

\* json.dump of that dict: the JSON document of the state file
json_dump(d) ==
    [ direction |-> IF d.direction = "none" THEN JNull ELSE JStr(d.direction),
      last_entry_price |-> JOpt(d.last_entry_price),
      next_entry_price |-> JOpt(d.next_entry_price),
      levels_filled |-> JNum(d.levels_filled),
      cooldown_until_ts |-> JOpt(d.cooldown_until_ts),
      basket_id |-> JNum(d.basket_id),
      basket_start_balance |-> JOpt(d.basket_start_balance),
      max_volume |-> JNum(d.max_volume),
      worst_drawdown |-> JNum(d.worst_drawdown),
      basket_open_ts |-> JOpt(d.basket_open_ts),
      entry_order_ids |-> JArr([ i \in 1..Len(d.entry_order_ids) |-> JNum(d.entry_order_ids[i]) ]),
      tp_order_ids |-> JArr([ i \in 1..Len(d.tp_order_ids) |-> JNum(d.tp_order_ids[i]) ]) ]

\* data.get(key) of a value kept as it is: null is None
PyOpt(j) == IF j.t = "null" THEN None ELSE Some(j.v)
PyDirection(j) == IF j.t = "null" THEN "none" ELSE j.v

\* int(x) and float(x) raise on None, on a list and on a string that is no
\* number (the only strings of the model)
IsNumber(j) == j.t = "num"
IsNumbers(j) == j.t = "arr" /\ \A i \in 1..Len(j.v) : IsNumber(j.v[i])

\* GridState.from_dict raises on this document
from_dict_raises(d) ==
    ~ /\ IsNumber(d.levels_filled)
      /\ IsNumber(d.basket_id)
      /\ IsNumber(d.max_volume)
      /\ IsNumber(d.worst_drawdown)
      /\ IsNumbers(d.entry_order_ids)
      /\ IsNumbers(d.tp_order_ids)

\* a from_dict that does not read tp_order_ids
from_dict_NoTpIds(d) ==
    [ direction |-> PyDirection(d.direction),
      last_entry_price |-> PyOpt(d.last_entry_price),
      next_entry_price |-> PyOpt(d.next_entry_price),
      levels_filled |-> d.levels_filled.v,
      cooldown_until_ts |-> PyOpt(d.cooldown_until_ts),
      basket_id |-> d.basket_id.v,
      basket_start_balance |-> PyOpt(d.basket_start_balance),
      max_volume |-> d.max_volume.v,
      worst_drawdown |-> d.worst_drawdown.v,
      basket_open_ts |-> PyOpt(d.basket_open_ts),
      entry_order_ids |-> [ i \in 1..Len(d.entry_order_ids.v) |-> d.entry_order_ids.v[i].v ],
      tp_order_ids |-> << >> ]

\* GridState.from_dict of a document it does not raise on
from_dict(d) ==
    [ direction |-> PyDirection(d.direction),
      last_entry_price |-> PyOpt(d.last_entry_price),
      next_entry_price |-> PyOpt(d.next_entry_price),
      levels_filled |-> d.levels_filled.v,
      cooldown_until_ts |-> PyOpt(d.cooldown_until_ts),
      basket_id |-> d.basket_id.v,
      basket_start_balance |-> PyOpt(d.basket_start_balance),
      max_volume |-> d.max_volume.v,
      worst_drawdown |-> d.worst_drawdown.v,
      basket_open_ts |-> PyOpt(d.basket_open_ts),
      entry_order_ids |-> [ i \in 1..Len(d.entry_order_ids.v) |-> d.entry_order_ids.v[i].v ],
      tp_order_ids |-> [ i \in 1..Len(d.tp_order_ids.v) |-> d.tp_order_ids.v[i].v ] ]

\* The state file: absent, or present with a JSON document `data`; ok says
\* whether open() and json.load succeed on it (FALSE: unreadable, or a text
\* that does not parse).
NoFile == [ exists |-> FALSE, ok |-> FALSE, data |-> json_dump(to_dict(EmptyState)) ]
FileOf(d) == [ exists |-> TRUE, ok |-> TRUE, data |-> json_dump(d) ]

\* load, lines 19-21, the body of the try block: what it returns or raises.
\* open() raises OSError on an unreadable file, json.load JSONDecodeError on a
\* text that does not parse (`err` of the file says which; a text cut short
\* has none), from_dict AttributeError on a document that is no object and
\* TypeError or ValueError on fields int() and float() do not take.
load_try(f) ==
    IF ~f.ok
    THEN [ exc |-> IF "err" \in DOMAIN f THEN f.err ELSE "JSONDecodeError",
           state |-> EmptyState ]
    ELSE IF "t" \in DOMAIN f.data
    THEN [ exc |-> "AttributeError", state |-> EmptyState ]
    ELSE IF from_dict_raises(f.data)
    THEN [ exc |-> "TypeError", state |-> EmptyState ]
    ELSE [ exc |-> "none", state |-> from_dict(f.data) ]

\* a handler that catches the JSON error only
CaughtByLoad_JsonOnly == { "JSONDecodeError" }

\* load, line 22: "except Exception" catches every exception of the try block
CaughtByLoad == { "OSError", "JSONDecodeError", "AttributeError", "TypeError" }

\* StateStore.load: the GridState it returns, or the exception it lets through
load_outcome(f) ==
    IF ~f.exists THEN [ exc |-> "none", state |-> EmptyState ]
    ELSE IF load_try(f).exc \in CaughtByLoad
    THEN [ exc |-> "none", state |-> EmptyState ]
    ELSE load_try(f)

\* StateStore.load
load(f) == load_outcome(f).state

\* ------------------------------------------------------- the engine's context
\* What one call of the engine reads and writes: the GridState, the state file,
\* the drain flag, runner.py's session counters, and the call's outward effects
\* in order (exchange orders, summaries given to the close callback, ledger
\* rows); exc is the exception propagating out of the call ("none", "api").
Ctx(st, f, dr, gr, ga) ==
    [ state |-> st, saved |-> f, drain |-> dr, grids |-> gr, gain |-> ga,
      calls |-> << >>, emitted |-> << >>, ledger |-> << >>, resets |-> 0,
      exc |-> "none", saves |-> 0, queries |-> 0 ]

\* StateStore.save(self.state); saves counts the writes of the call
save(E) == [E EXCEPT !.saved = FileOf(to_dict(E.state)), !.saves = @ + 1]

\* a read-only request to the exchange made inside the engine (get_user_trades)
Query(E) == [E EXCEPT !.queries = @ + 1]

\* the caller's "if self._populate_entries_from_trades(...): save"
SaveIf(x) == IF x.ok THEN save(x.E) ELSE x.E

Raise(E, kind) == [E EXCEPT !.exc = kind]
Call(E, c) == [E EXCEPT !.calls = Append(@, c)]

\* One request sent to the exchange, as the call log keeps it: the operation
\* ("market", "tp", "cancel_all"), the code path that sent it, its side,
\* quantity and limit price (0 for none), and the direction, level and next
\* entry price of the GridState at the moment it was sent.
CallRec(op, via, side, qty, price, st) ==
    [ op |-> op, via |-> via, side |-> side, qty |-> qty, price |-> price,
      dir |-> st.direction, lvl |-> st.levels_filled, nxt |-> st.next_entry_price ]
Raised(E) == E.exc # "none"

\* ---------------------------------------------------------------- strategy.py
\* a basket id that puts the minutes first: strftime("%M%H%d")
_new_basket_id_MinutesFirst(opened_at, t) ==
    LET ts == IF IsNone(opened_at) \/ Val(opened_at) = 0 THEN t ELSE Val(opened_at)
    IN  (ts % 60) * 1000000 + ((ts \div 60) % 24) * 10000 + (101 + ts \div 1440)

\* _new_basket_id: strftime("%y%m%d%H%M%S") of opened_at, or of the clock when
\* opened_at is None or 0.  Time is in minutes from 2000-01-01T00:00Z, so the
\* seconds digits are 00 and the date digits 000101 plus the whole days.
_new_basket_id(opened_at, t) ==
    LET ts == IF IsNone(opened_at) \/ Val(opened_at) = 0 THEN t ELSE Val(opened_at)
    IN  (101 + ts \div 1440) * 1000000 + ((ts \div 60) % 24) * 10000 + (ts % 60) * 100

\* _tp_price: lots = qty / lot_size, target = lots * target_profit_usd,
\* delta = target / qty, raw = entry_price -/+ delta, rounded to the price tick
_tp_price(entry_price, qty, direction) ==
    LET target_num == qty * TargetProfit
        \* delta = target_num / (LotSize * qty)
        den == LotSize * qty
        raw_num == IF direction = "short" THEN entry_price * den - target_num
                   ELSE entry_price * den + target_num
    IN  round_to_step(raw_num, den, PriceTick)

\* _place_tp; tp is the exchange's answer: [ok, oid]
_place_tp(E, entry_price, qty, direction, tp) ==
    LET tp_price == _tp_price(entry_price, qty, direction)
        side == IF direction = "short" THEN "BUY" ELSE "SELL"
        E1 == Call(E, CallRec("tp", "place_tp", side, qty, tp_price, E.state))
    IN  IF ~tp.ok THEN Raise(E1, "api")
        ELSE IF IsNone(tp.oid) THEN E1
        ELSE [E1 EXCEPT !.state.tp_order_ids = Append(@, Val(tp.oid))]

\* an _execute_market that returns an order nothing confirms
_execute_market_NoRaise(side, qty, price, m) ==
    IF ~m.placeOk
    THEN [raised |-> TRUE, oid |-> None, ts |-> None, executed |-> 0, entry_price |-> 0]
    ELSE [raised |-> FALSE, oid |-> m.oid, ts |-> m.ts, executed |-> m.executedQty,
          entry_price |-> IF m.avgPrice > 0 THEN m.avgPrice ELSE price]

\* _execute_market; m is what the exchange answers to the calls it makes:
\*   preOk, preAmt          get_position_info before the order
\*   placeOk                place_market_order (FALSE: BinanceAPIError)
\*   executedQty, avgPrice  the order's fields (0 when absent or zero)
\*   oid, ts                the order's id and update time (optional)
\*   postOk, postAmt, postEntry   get_position_info after the order
\*   refine                 quote/qty of the order's trades (None: query failed
\*                          or no trade of this order)
\* Returns [raised, oid, ts, executed, entry_price].
_execute_market(side, qty, price, m) ==
    LET pre_qty == IF m.preOk THEN m.preAmt ELSE 0
        executed0 == m.executedQty
        entry0 == IF m.avgPrice # 0 THEN m.avgPrice ELSE price
        delta == Abs(m.postAmt - pre_qty)
        confirmed == executed0 <= 0 /\ m.postOk /\ 10 * delta >= 9 * qty
        executed == IF confirmed THEN delta ELSE executed0
        entry1 == IF confirmed
                  THEN (IF m.postEntry # 0 THEN m.postEntry
                        ELSE IF entry0 # 0 THEN entry0 ELSE price)
                  ELSE entry0
        entry2 == IF ~IsNone(m.oid) /\ Val(m.oid) # 0 /\ ~IsNone(m.refine)
                  THEN Val(m.refine) ELSE entry1
    IN  IF ~m.placeOk
        THEN [raised |-> TRUE, oid |-> None, ts |-> None, executed |-> 0, entry_price |-> 0]
        ELSE IF executed <= 0
        THEN [raised |-> TRUE, oid |-> m.oid, ts |-> m.ts, executed |-> 0, entry_price |-> 0]
        ELSE [raised |-> FALSE, oid |-> m.oid, ts |-> m.ts, executed |-> executed,
              entry_price |-> IF entry2 <= 0 THEN price ELSE entry2]

\* list.sort(key = time): stable insertion of t behind the trades not later than it
RECURSIVE InsertByTime(_, _)
InsertByTime(sorted, t) ==
    IF sorted = << >> THEN << t >>
    ELSE IF Head(sorted).time <= t.time
         THEN << Head(sorted) >> \o InsertByTime(Tail(sorted), t)
         ELSE << t >> \o sorted

RECURSIVE SortByTime(_)
SortByTime(ts) ==
    IF ts = << >> THEN << >>
    ELSE InsertByTime(SortByTime(SubSeq(ts, 1, Len(ts) - 1)), ts[Len(ts)])

IsEntrySide(t, direction) == IF direction = "long" THEN t.buyer ELSE ~t.buyer
IsOppositeSide(t, direction) ==
    (direction = "long" /\ ~t.buyer) \/ (direction = "short" /\ t.buyer)

\* index of the last opposite-side trade, 0 when there is none
LastOppositeIdx(trades, direction) ==
    LET S == { i \in 1..Len(trades) : IsOppositeSide(trades[i], direction) }
    IN  IF S = {} THEN 0 ELSE CHOOSE i \in S : \A j \in S : j <= i

\* trades[last_opposite_idx + 1:] if last_opposite_idx + 1 < len(trades) else trades
ActiveSlice(trades, direction) ==
    LET k == LastOppositeIdx(trades, direction)
    IN  IF k < Len(trades) THEN SubSeq(trades, k + 1, Len(trades)) ELSE trades

\* the reversed scan: picks trades from the end until their net reaches the
\* position size within 1 %; [net, picked] with picked in scan order
RECURSIVE PickTrades(_, _, _, _, _, _)
PickTrades(slice, i, net, picked, position_qty, direction) ==
    IF i < 1 THEN [net |-> net, picked |-> picked]
    ELSE LET tr0 == slice[i]
             net1 == net + (IF IsEntrySide(tr0, direction) THEN tr0.qty ELSE -tr0.qty)
             picked1 == Append(picked, tr0)
         IN  IF 100 * net1 >= 99 * position_qty
             THEN [net |-> net1, picked |-> picked1]
             ELSE PickTrades(slice, i - 1, net1, picked1, position_qty, direction)

Reverse(sq) == [ i \in 1..Len(sq) |-> sq[Len(sq) + 1 - i] ]

RECURSIVE SortedSeqOf(_)
SortedSeqOf(S) ==
    IF S = {} THEN << >>
    ELSE LET m == CHOOSE x \in S : \A y \in S : x <= y
         IN  << m >> \o SortedSeqOf(S \ {m})

\* _populate_entries_from_trades; tr is the answer of get_user_trades: None when
\* it raises, else <<trades>> with each trade [buyer, qty, price, time, oid].
\* list(set(oids)) is taken in ascending order.  Returns [E, ok].
_populate_entries_from_trades(E, position_qty, direction, tr, t) ==
    IF position_qty <= 0 \/ direction = "none" THEN [E |-> E, ok |-> FALSE]
    ELSE IF IsNone(tr) THEN [E |-> Query(E), ok |-> FALSE]
    ELSE IF Val(tr) = << >> THEN [E |-> Query(E), ok |-> FALSE]
    ELSE
      LET trades == SortByTime(Val(tr))
          active_slice == ActiveSlice(trades, direction)
          pk == PickTrades(active_slice, Len(active_slice), 0, << >>,
                           position_qty, direction)
          picked == Reverse(pk.picked)
          entry_trades == SelectSeq(picked, LAMBDA x : IsEntrySide(x, direction))
      IN  IF active_slice = << >> THEN [E |-> Query(E), ok |-> FALSE]
          ELSE IF 100 * pk.net < 99 * position_qty THEN [E |-> Query(E), ok |-> FALSE]
          ELSE IF entry_trades = << >> THEN [E |-> Query(E), ok |-> FALSE]
          ELSE
            LET st == E.state
                lastp == entry_trades[Len(entry_trades)].price
                last1 == IF lastp # 0 THEN Some(lastp) ELSE st.last_entry_price
                time0 == entry_trades[1].time
                open1 == IF time0 # 0 THEN Some(time0) ELSE st.basket_open_ts
                hasLast == ~IsNone(last1) /\ Val(last1) # 0
                next1 == IF GridSpacing > 0 /\ hasLast
                         THEN Some(IF direction = "long" THEN Val(last1) - GridSpacing
                                   ELSE Val(last1) + GridSpacing)
                         ELSE st.next_entry_price
                hasOpen == ~IsNone(open1) /\ Val(open1) # 0
                id1 == IF hasOpen THEN _new_basket_id(open1, t) ELSE st.basket_id
                st1 == [st EXCEPT
                          !.entry_order_ids =
                              SortedSeqOf({ entry_trades[i].oid : i \in 1..Len(entry_trades) }),
                          !.last_entry_price = last1,
                          !.basket_open_ts = open1,
                          !.next_entry_price = next1,
                          !.basket_id = id1]
            IN  [E |-> [Query(E) EXCEPT !.state = st1], ok |-> TRUE]

\* a level inference that counts levels until the position size is covered
RECURSIVE InferLevel_NoCap(_, _, _)
InferLevel_NoCap(level, cumulative, abs_qty) ==
    IF cumulative < abs_qty
    THEN InferLevel_NoCap(level + 1, cumulative + LevelQty(level + 1), abs_qty)
    ELSE level

\* the while loop of reconcile_position: levels whose cumulative quantity
\* reaches the position size
RECURSIVE InferLevel(_, _, _)
InferLevel(level, cumulative, abs_qty) ==
    IF cumulative < abs_qty /\ level < MaxLevels
    THEN InferLevel(level + 1, cumulative + LevelQty(level + 1), abs_qty)
    ELSE level

\* a count of open orders that takes every order for a reduce-only order
ReduceOnly_All(open_orders) == open_orders

ReduceOnly(open_orders) == SelectSeq(open_orders, LAMBDA o : o.reduceOnly)
OrderIdsOf(orders) == [ i \in 1..Len(orders) |-> orders[i].orderId ]

\* a reconcile_position that rebuilds an ACTIVE state too and stamps the
\* basket with the clock each time
reconcile_position_Rebuilds(E, price, pos, open_orders, tr, t) ==
    LET position_qty == pos.amt
        st == E.state
    IN  IF position_qty = 0
        THEN IF st.direction # "none"
             THEN save([E EXCEPT !.state = reset(st)])
             ELSE E
        ELSE
          LET direction == IF position_qty > 0 THEN "long" ELSE "short"
              abs_qty == Abs(position_qty)
              level0 == InferLevel(0, 0, abs_qty)
              ro == ReduceOnly(open_orders)
              level == IF open_orders # << >> /\ Len(ro) > level0
                       THEN Min(Len(ro), MaxLevels) ELSE level0
              inferred_entry == pos.entry
              st1 == [st EXCEPT
                        !.direction = direction,
                        !.levels_filled = level,
                        !.last_entry_price =
                            Some(IF inferred_entry # 0 THEN inferred_entry ELSE price),
                        !.next_entry_price =
                            Some(IF direction = "short" THEN inferred_entry + GridSpacing
                                 ELSE inferred_entry - GridSpacing),
                        !.basket_open_ts = Some(t),
                        !.basket_id = _new_basket_id(Some(t), t),
                        !.tp_order_ids = IF ro # << >> THEN OrderIdsOf(ro) ELSE @]
              E1 == [E EXCEPT !.state = st1]
          IN  save(IF st1.entry_order_ids = << >>
                   THEN SaveIf(_populate_entries_from_trades(E1, abs_qty, direction, tr, t))
                   ELSE E1)

\* reconcile_position(price, pos_info, open_orders); pos is the position
\* snapshot [amt, entry, mark, upnl], tr the trade history it may query
reconcile_position(E, price, pos, open_orders, tr, t) ==
    LET position_qty == pos.amt
        st == E.state
    IN  IF position_qty = 0
        THEN IF st.direction # "none"
             THEN save([E EXCEPT !.state = reset(st)])
             ELSE E
        ELSE IF st.direction # "none" THEN E
        ELSE
          LET direction == IF position_qty > 0 THEN "long" ELSE "short"
              abs_qty == Abs(position_qty)
              level0 == InferLevel(0, 0, abs_qty)
              ro == ReduceOnly(open_orders)
              level == IF open_orders # << >> /\ Len(ro) > level0
                       THEN Min(Len(ro), MaxLevels) ELSE level0
              inferred_entry == pos.entry
              open1 == IF st.basket_id = 0 /\ IsNone(st.basket_open_ts)
                       THEN Some(t) ELSE st.basket_open_ts
              st1 == [st EXCEPT
                        !.direction = direction,
                        !.levels_filled = level,
                        !.last_entry_price =
                            Some(IF inferred_entry # 0 THEN inferred_entry ELSE price),
                        !.next_entry_price =
                            Some(IF direction = "short" THEN inferred_entry + GridSpacing
                                 ELSE inferred_entry - GridSpacing),
                        !.basket_open_ts = open1,
                        !.basket_id = IF st.basket_id = 0 THEN _new_basket_id(open1, t)
                                      ELSE st.basket_id,
                        !.tp_order_ids = IF ro # << >> THEN OrderIdsOf(ro) ELSE @]
              E1 == [E EXCEPT !.state = st1]
          IN  save(IF st1.entry_order_ids = << >>
                   THEN SaveIf(_populate_entries_from_trades(E1, abs_qty, direction, tr, t))
                   ELSE E1)

\* a session-limit closure that engages drain one basket too late
on_basket_close_PastLimit(E, summary) ==
    LET grids1 == E.grids + 1
        gain1 == IF IsNone(summary.pnl) THEN E.gain ELSE E.gain + Val(summary.pnl)
        hit_grids == MaxGrids > 0 /\ grids1 > MaxGrids
        hit_gain == ~hit_grids /\ MaxGain > 0 /\ gain1 >= MaxGain
    IN  [E EXCEPT !.grids = grids1, !.gain = gain1,
                  !.drain = IF hit_grids \/ hit_gain THEN TRUE ELSE @]

\* runner.py, on_basket_close: the session-limit closure given to the engine
on_basket_close(E, summary) ==
    LET grids1 == E.grids + 1
        gain1 == IF IsNone(summary.pnl) THEN E.gain ELSE E.gain + Val(summary.pnl)
        hit_grids == MaxGrids > 0 /\ grids1 >= MaxGrids
        hit_gain == ~hit_grids /\ MaxGain > 0 /\ gain1 >= MaxGain
    IN  [E EXCEPT !.grids = grids1, !.gain = gain1,
                  !.drain = IF hit_grids \/ hit_gain THEN TRUE ELSE @]

\* a close handling that reports the wallet balance as the basket's result
_maybe_reset_state_PnlIsWallet(E, position_qty, in, t) ==
    LET st == E.state
    IN  IF ~(position_qty = 0 /\ st.direction # "none") THEN E
        ELSE
          LET summary == [ basket_id |-> st.basket_id,
                           levels |-> st.levels_filled,
                           max_volume_eth |-> st.max_volume,
                           worst_drawdown |-> st.worst_drawdown,
                           pnl |-> in.wallet,
                           direction |-> st.direction,
                           open_at |-> st.basket_open_ts ]
          IN  save([E EXCEPT !.emitted = Append(@, summary),
                             !.ledger = Append(@, summary),
                             !.state = reset(st), !.resets = @ + 1])

\* a close handling that lets a failing callback or ledger append escape
_maybe_reset_state_Escapes(E, position_qty, in, t) ==
    LET st == E.state
    IN  IF ~(position_qty = 0 /\ st.direction # "none") THEN E
        ELSE IF ~in.cbOk \/ ~in.ledgerOk
        THEN Raise([E EXCEPT !.resets = @ + 1], "callback")
        ELSE save([E EXCEPT !.state = [reset(st) EXCEPT !.cooldown_until_ts =
                                          IF cfg.cooldown_minutes > 0
                                          THEN Some(t + cfg.cooldown_minutes) ELSE @],
                            !.resets = @ + 1])

\* _maybe_reset_state(position_qty); in.wallet is the answer of get_account
\* (None: it raises), in.cbOk and in.ledgerOk whether the callback and the
\* ledger append return normally
_maybe_reset_state(E, position_qty, in, t) ==
    LET st == E.state
    IN  IF ~(position_qty = 0 /\ st.direction # "none") THEN E
        ELSE
          LET pnl == IF ~IsNone(in.wallet) /\ ~IsNone(st.basket_start_balance)
                     THEN Some(Val(in.wallet) - Val(st.basket_start_balance))
                     ELSE None
              summary == [ basket_id |-> st.basket_id,
                           levels |-> st.levels_filled,
                           max_volume_eth |-> st.max_volume,
                           worst_drawdown |-> st.worst_drawdown,
                           pnl |-> pnl,
                           direction |-> st.direction,
                           open_at |-> st.basket_open_ts ]
              E1 == [E EXCEPT !.emitted = Append(@, summary)]
              E2 == IF in.cbOk THEN on_basket_close(E1, summary) ELSE E1
              E3 == IF in.ledgerOk THEN [E2 EXCEPT !.ledger = Append(@, summary)] ELSE E2
              E4 == [E3 EXCEPT !.state = reset(st), !.resets = @ + 1]
          IN  IF cfg.cooldown_minutes > 0
              THEN save([E4 EXCEPT !.state.cooldown_until_ts =
                                       Some(t + cfg.cooldown_minutes)])
              ELSE E4

\* the quantity of an entry at `level`, raised to the minimum notional
EntryQty(level, price) ==
    LET qty == LevelQty(level)
        min_qty == round_up(MinNotional, price, QtyStep)
    IN  IF qty < min_qty THEN min_qty ELSE qty

MarketCall(via, side, qty, st) == CallRec("market", via, side, qty, 0, st)

\* a _start_position that stamps the basket with its opening time and leaves
\* the basket id as it was
_start_position_NoId(E, price, direction, in, t) ==
    LET st == E.state
        qty == EntryQty(1, price)
        side == IF direction = "short" THEN "SELL" ELSE "BUY"
        wallet == in.startWallet
        r == _execute_market(side, qty, price, in.mkts[1])
        E1 == Call(E, MarketCall("start", side, qty, st))
    IN  IF r.raised THEN Raise(E1, "api")
        ELSE
          LET open1 == IF ~IsNone(r.ts) /\ Val(r.ts) # 0 THEN r.ts ELSE st.basket_open_ts
              open2 == IF IsNone(open1) THEN Some(t) ELSE open1
              st1 == [st EXCEPT
                        !.basket_open_ts = open2,
                        !.entry_order_ids = IF IsNone(r.oid) THEN @ ELSE Append(@, Val(r.oid)),
                        !.direction = direction,
                        !.last_entry_price = Some(r.entry_price),
                        !.levels_filled = 1,
                        !.next_entry_price =
                            Some(IF direction = "short" THEN r.entry_price + GridSpacing
                                 ELSE r.entry_price - GridSpacing),
                        !.basket_start_balance = wallet,
                        !.max_volume = Max(st.max_volume, qty),
                        !.worst_drawdown = <<0, 1>>]
              E2 == _place_tp([E1 EXCEPT !.state = st1], r.entry_price, qty, direction, in.tps[1])
          IN  IF Raised(E2) THEN E2 ELSE save(E2)

\* _start_position(price, direction)
_start_position(E, price, direction, in, t) ==
    LET st == E.state
        qty == EntryQty(1, price)
        side == IF direction = "short" THEN "SELL" ELSE "BUY"
        wallet == in.startWallet
        r == _execute_market(side, qty, price, in.mkts[1])
        E1 == Call(E, MarketCall("start", side, qty, st))
    IN  IF r.raised THEN Raise(E1, "api")
        ELSE
          LET open1 == IF ~IsNone(r.ts) /\ Val(r.ts) # 0 THEN r.ts ELSE st.basket_open_ts
              open2 == IF IsNone(open1) THEN Some(t) ELSE open1
              st1 == [st EXCEPT
                        !.basket_open_ts = open2,
                        !.entry_order_ids = IF IsNone(r.oid) THEN @ ELSE Append(@, Val(r.oid)),
                        !.direction = direction,
                        !.last_entry_price = Some(r.entry_price),
                        !.levels_filled = 1,
                        !.next_entry_price =
                            Some(IF direction = "short" THEN r.entry_price + GridSpacing
                                 ELSE r.entry_price - GridSpacing),
                        !.basket_id = IF st.basket_id = 0 THEN _new_basket_id(open2, t) ELSE @,
                        !.basket_start_balance = wallet,
                        !.max_volume = Max(st.max_volume, qty),
                        !.worst_drawdown = <<0, 1>>]
              E2 == _place_tp([E1 EXCEPT !.state = st1], r.entry_price, qty, direction, in.tps[1])
          IN  IF Raised(E2) THEN E2 ELSE save(E2)

\* an extension test that fires on the favourable side of the target
should_enter_Favourable(direction, price, target_price) ==
    \/ direction = "short" /\ price < target_price
    \/ direction = "long" /\ price > target_price

\* should_enter of _extend_grid_if_needed: the price is at or beyond the target
should_enter(direction, price, target_price) ==
    \/ direction = "short" /\ price >= target_price
    \/ direction = "long" /\ price <= target_price

\* an extension loop that measures the next entry from the planned target
\* price of the level instead of its fill price, and does not re-anchor it
\* when it looks at the price again
RECURSIVE ExtendLoop_FromTarget(_, _, _, _)
ExtendLoop_FromTarget(E, price, in, i) ==
    LET st == E.state
    IN  IF IsNone(st.last_entry_price) THEN E
        ELSE
          LET target_price == IF st.direction = "short"
                              THEN Val(st.last_entry_price) + GridSpacing
                              ELSE Val(st.last_entry_price) - GridSpacing
              E1 == E
          IN  IF ~should_enter(st.direction, price, target_price) THEN save(E1)
              ELSE IF st.levels_filled >= MaxLevels THEN save(E1)
              ELSE
                LET level == st.levels_filled + 1
                    qty == EntryQty(level, price)
                    side == IF st.direction = "short" THEN "SELL" ELSE "BUY"
                    k == Min(i, Len(in.mkts))
                    r == _execute_market(side, qty, price, in.mkts[k])
                    E2 == Call(E1, MarketCall("extend", side, qty, st))
                IN  IF r.raised THEN Raise(E2, "api")
                    ELSE
                      LET st3 == [E2.state EXCEPT
                                    !.entry_order_ids =
                                        IF IsNone(r.oid) THEN @ ELSE Append(@, Val(r.oid)),
                                    !.levels_filled = level,
                                    !.last_entry_price = Some(r.entry_price),
                                    !.next_entry_price =
                                        Some(IF st.direction = "short"
                                             THEN target_price + GridSpacing
                                             ELSE target_price - GridSpacing),
                                    !.max_volume = Max(@, CumQty(level))]
                          E4 == _place_tp([E2 EXCEPT !.state = st3], r.entry_price, qty,
                                          st.direction, in.tps[Min(i, Len(in.tps))])
                      IN  IF Raised(E4) THEN E4
                          ELSE ExtendLoop_FromTarget(save(E4), price, in, i + 1)

\* the while loop of _extend_grid_if_needed; i counts the entries of this call
RECURSIVE ExtendLoop(_, _, _, _)
ExtendLoop(E, price, in, i) ==
    LET st == E.state
    IN  IF IsNone(st.last_entry_price) THEN E
        ELSE
          LET target_price == IF st.direction = "short"
                              THEN Val(st.last_entry_price) + GridSpacing
                              ELSE Val(st.last_entry_price) - GridSpacing
              E1 == [E EXCEPT !.state.next_entry_price = Some(target_price)]
          IN  IF ~should_enter(st.direction, price, target_price) THEN save(E1)
              ELSE IF st.levels_filled >= MaxLevels THEN save(E1)
              ELSE
                LET level == st.levels_filled + 1
                    qty == EntryQty(level, price)
                    side == IF st.direction = "short" THEN "SELL" ELSE "BUY"
                    k == Min(i, Len(in.mkts))
                    r == _execute_market(side, qty, price, in.mkts[k])
                    E2 == Call(E1, MarketCall("extend", side, qty, st))
                IN  IF r.raised THEN Raise(E2, "api")
                    ELSE
                      LET st3 == [E2.state EXCEPT
                                    !.entry_order_ids =
                                        IF IsNone(r.oid) THEN @ ELSE Append(@, Val(r.oid)),
                                    !.levels_filled = level,
                                    !.last_entry_price = Some(r.entry_price),
                                    !.next_entry_price =
                                        Some(IF st.direction = "short"
                                             THEN r.entry_price + GridSpacing
                                             ELSE r.entry_price - GridSpacing),
                                    !.max_volume = Max(@, CumQty(level))]
                          E4 == _place_tp([E2 EXCEPT !.state = st3], r.entry_price, qty,
                                          st.direction, in.tps[Min(i, Len(in.tps))])
                      IN  IF Raised(E4) THEN E4
                          ELSE ExtendLoop(save(E4), price, in, i + 1)

\* _extend_grid_if_needed(price)
_extend_grid_if_needed(E, price, in) ==
    IF E.state.direction = "none" THEN E
    ELSE IF E.state.levels_filled >= MaxLevels \/ GridSpacing <= 0 THEN E
    ELSE ExtendLoop(E, price, in, 1)

\* _ensure_basket_time_from_entries; in.ordTs is the update time of the first
\* entry order as get_order reports it (None: the query raises or has no time)
_ensure_basket_time_from_entries(E, in, t) ==
    LET st == E.state
    IN  IF ~IsNone(st.basket_open_ts) /\ st.basket_id # 0 THEN E
        ELSE IF st.entry_order_ids = << >> THEN E
        ELSE IF IsNone(in.ordTs) \/ Val(in.ordTs) = 0 THEN E
        ELSE save([E EXCEPT !.state.basket_open_ts = in.ordTs,
                            !.state.basket_id = _new_basket_id(in.ordTs, t)])

\* a take-profit check that replaces an order at the edge of the tolerances
EnsureTp_AtTolerance(E, open_orders, position_qty, entry_price, mark_price) ==
    LET st == E.state
        dir == IF st.direction = "none" THEN "long" ELSE st.direction
        target_tp == _tp_price(IF entry_price > 0 THEN entry_price ELSE mark_price,
                               Abs(position_qty), dir)
        ro_orders == ReduceOnly(open_orders)
        needs_replace ==
            IF Len(ro_orders) # 1 THEN TRUE
            ELSE 2 * Abs(ro_orders[1].origQty - Abs(position_qty)) >= QtyStep
                 \/ Abs(ro_orders[1].price - target_tp) >= PriceTick
        tp_side == IF st.direction = "short" THEN "BUY" ELSE "SELL"
    IN  IF needs_replace
        THEN Call(Call(E, CallRec("cancel_all", "ensure", "-", 0, 0, st)),
                  CallRec("tp", "ensure", tp_side, Abs(position_qty), target_tp, st))
        ELSE E

\* on_price, lines 678-702: keep one reduce-only order aligned with the position
EnsureTp(E, open_orders, position_qty, entry_price, mark_price) ==
    LET st == E.state
        dir == IF st.direction = "none" THEN "long" ELSE st.direction
        target_tp == _tp_price(IF entry_price > 0 THEN entry_price ELSE mark_price,
                               Abs(position_qty), dir)
        ro_orders == ReduceOnly(open_orders)
        needs_replace ==
            IF Len(ro_orders) # 1 THEN TRUE
            ELSE LET o == ro_orders[1]
                     qty_diff == Abs(o.origQty - Abs(position_qty))
                     price_diff == Abs(o.price - target_tp)
                 IN  2 * qty_diff > QtyStep \/ price_diff > PriceTick
        tp_side == IF st.direction = "short" THEN "BUY" ELSE "SELL"
    IN  IF needs_replace
        THEN Call(Call(E, CallRec("cancel_all", "ensure", "-", 0, 0, st)),
                  CallRec("tp", "ensure", tp_side, Abs(position_qty), target_tp, st))
        ELSE E

\* on_price, lines 594-596
PopulateIfNeeded(E, in, t) ==
    IF /\ E.state.entry_order_ids = << >>
       /\ Abs(in.pos.amt) > 0
       /\ E.state.direction # "none"
    THEN SaveIf(_populate_entries_from_trades(E, Abs(in.pos.amt), E.state.direction,
                                              in.trades, t))
    ELSE E

\* on_price, lines 597-604: the entry price of the snapshot fills an unknown
\* last_entry_price
SyncEntryPrice(E, entry_price) ==
    IF IsNone(E.state.last_entry_price) /\ entry_price # 0
    THEN save([E EXCEPT
                 !.state.last_entry_price = Some(entry_price),
                 !.state.next_entry_price =
                     IF GridSpacing > 0
                     THEN Some(IF E.state.direction = "short"
                               THEN entry_price + GridSpacing
                               ELSE entry_price - GridSpacing)
                     ELSE @])
    ELSE E

\* on_price, lines 606-611: worst drawdown
TrackDrawdown(E, position_qty, mark_price, unrealized) ==
    LET notional == Abs(position_qty) * mark_price
    IN  IF notional > 0 /\ FracLess(Frac(unrealized, notional), E.state.worst_drawdown)
        THEN save([E EXCEPT !.state.worst_drawdown = Frac(unrealized, notional)])
        ELSE E

\* on_price, lines 612-614: largest position
TrackVolume(E, position_qty, mark_price) ==
    IF Abs(position_qty) * mark_price > 0 /\ Abs(position_qty) > E.state.max_volume
    THEN save([E EXCEPT !.state.max_volume = Abs(position_qty)])
    ELSE E

\* on_price, lines 616-702, of which the model keeps the take-profit check
ManageTp(E, open_orders, position_qty, entry_price, mark_price) ==
    IF Abs(position_qty) > 0
    THEN EnsureTp(E, open_orders, position_qty, entry_price, mark_price)
    ELSE E

\* a decision step where drain_mode also stops the extension of a basket
Decide_DrainStopsExtension(E, b1, in, mark_price, t) ==
    LET bands == bb_bands(b1)
        st == E.state
        cooling == ~IsNone(st.cooldown_until_ts) /\ Val(st.cooldown_until_ts) # 0
                   /\ t < Val(st.cooldown_until_ts)
    IN  [ E |-> IF IsNone(bands) \/ E.drain THEN E
                ELSE IF st.direction = "none"
                THEN IF cooling THEN E
                     ELSE IF AboveUpper(in.price, Val(bands))
                             \/ BelowLower(in.price, Val(bands))
                     THEN _start_position(E, in.price,
                                          IF AboveUpper(in.price, Val(bands))
                                          THEN "short" ELSE "long", in, t)
                     ELSE E
                ELSE _extend_grid_if_needed(E, mark_price, in),
          bb |-> b1,
          mid |-> Some(st) ]

\* on_price, lines 704-733: the entry or extension decision on the GridState
\* that _maybe_reset_state left; `mid` reports that GridState
Decide(E, b1, in, mark_price, t) ==
    LET bands == bb_bands(b1)
        st == E.state
        cooling == ~IsNone(st.cooldown_until_ts) /\ Val(st.cooldown_until_ts) # 0
                   /\ t < Val(st.cooldown_until_ts)
    IN  [ E |-> IF IsNone(bands) THEN E
                ELSE IF st.direction = "none"
                THEN IF E.drain \/ cooling THEN E
                     ELSE IF AboveUpper(in.price, Val(bands))
                             \/ BelowLower(in.price, Val(bands))
                     THEN _start_position(E, in.price,
                                          IF AboveUpper(in.price, Val(bands))
                                          THEN "short" ELSE "long", in, t)
                     ELSE E
                ELSE _extend_grid_if_needed(E, mark_price, in),
          bb |-> b1,
          mid |-> Some(st) ]

\* markPrice of the snapshot, the ticker price when it is absent or 0
MarkPrice(in) == IF in.pos.mark # 0 THEN in.pos.mark ELSE in.price

\* on_price, lines 593-702: what a tick does with the position snapshot before
\* it looks for a closed basket
BeforeReset(E0, in, t) ==
    ManageTp(
      TrackVolume(
        TrackDrawdown(
          SyncEntryPrice(
            PopulateIfNeeded(_ensure_basket_time_from_entries(E0, in, t), in, t),
            in.pos.entry),
          in.pos.amt, MarkPrice(in), in.pos.upnl),
        in.pos.amt, MarkPrice(in)),
      IF in.ordersOk THEN in.orders ELSE << >>,
      in.pos.amt, in.pos.entry, MarkPrice(in))

\* an on_price that looks for a closed basket only when the bands are ready
on_price_ResetWhenReady(E0, b0, in, t) ==
    IF ~in.posOk
    THEN [E |-> Raise(E0, "api"), bb |-> bb_add(b0, in.price), mid |-> None]
    ELSE Decide(IF bb_ready(bb_add(b0, in.price))
                THEN _maybe_reset_state(BeforeReset(E0, in, t), in.pos.amt, in, t)
                ELSE BeforeReset(E0, in, t),
                bb_add(b0, in.price), in, MarkPrice(in), t)

\* on_price(price); `in` holds the price and every answer of the exchange:
\*   price                 the ticker price
\*   ordersOk, orders      get_open_orders
\*   posOk, pos            get_position_info: [amt, entry, mark, upnl]
\*   wallet, mkts, tps, trades, ordTs, cbOk, ledgerOk   as described above
\* Returns the context, the indicator and `mid`, the GridState at the entry
\* decision (after _maybe_reset_state), None when the call did not get there.
on_price(E0, b0, in, t) ==
    IF ~in.posOk
    THEN [E |-> Raise(E0, "api"), bb |-> bb_add(b0, in.price), mid |-> None]
    ELSE Decide(_maybe_reset_state(BeforeReset(E0, in, t), in.pos.amt, in, t),
                bb_add(b0, in.price), in, MarkPrice(in), t)

\* force_seed(direction, price)
force_seed(E, direction, price, in, t) ==
    IF E.state.direction # "none" THEN E
    ELSE _start_position(E, price, direction, in, t)

\* ------------------------------------------------------- the exchange's answers
\* get_position_info: the exchange reports unRealizedProfit = amt * (mark - entry)
Snap(amt, entry, mark) ==
    [ amt |-> amt, entry |-> entry, mark |-> mark, upnl |-> amt * (mark - entry) ]

\* one open order of get_open_orders
Order(ro, qty, price, id) ==
    [ reduceOnly |-> ro, origQty |-> qty, price |-> price, orderId |-> id ]

\* one trade of get_user_trades
Trade(buyer, qty, price, time, oid) ==
    [ buyer |-> buyer, qty |-> qty, price |-> price, time |-> time, oid |-> oid ]

\* place_market_order and the queries around it: filled and reported at px
MFilled(px) ==
    [ preOk |-> TRUE, preAmt |-> 0, placeOk |-> TRUE, executedQty |-> QtyStep,
      avgPrice |-> px, oid |-> Some(7), ts |-> Some(now), postOk |-> TRUE,
      postAmt |-> 0, postEntry |-> 0, refine |-> None ]
\* rejected by the venue
MRejected == [MFilled(0) EXCEPT !.placeOk = FALSE]
\* reported with executedQty 0, and the position check cannot confirm a fill
MUnconfirmed == [MFilled(0) EXCEPT !.executedQty = 0, !.postOk = FALSE]
\* reported with executedQty 0, and the position moved by the whole order
MConfirmed(px) ==
    [MFilled(0) EXCEPT !.executedQty = 0, !.postAmt = CumQty(MaxLevels) + QtyStep,
                       !.postEntry = px]

MarketInputs == { MFilled(px) : px \in Prices } \cup { MUnconfirmed }

TpOk == [ ok |-> TRUE, oid |-> Some(9) ]
TpFails == [ ok |-> FALSE, oid |-> None ]

\* The answers given to an on_price call that places no order and closes no
\* basket; the other inputs are variations of it.
BaseIn(price, posOk, pos) ==
    [ price |-> price, ordersOk |-> TRUE, orders |-> << >>, posOk |-> posOk, pos |-> pos,
      wallet |-> Some(105), startWallet |-> Some(100), mkts |-> << MFilled(price) >>, tps |-> << TpOk >>,
      trades |-> None, ordTs |-> None, cbOk |-> TRUE, ledgerOk |-> TRUE,
      argDrain |-> FALSE, seed |-> "none", closes |-> None, priceOk |-> TRUE ]

\* Position snapshots offered to a tick: for an active basket the position it
\* built (at its last entry price, any mark) or none; for a flat state none, or
\* a position the local state does not know of.
Snapshots(st, price) ==
    IF st.direction # "none"
    THEN LET amt == (IF st.direction = "long" THEN 1 ELSE -1) * CumQty(st.levels_filled)
             entry == IF IsNone(st.last_entry_price) THEN price ELSE Val(st.last_entry_price)
         IN  { Snap(0, 0, price) } \cup { Snap(amt, entry, price) }
    ELSE { Snap(0, 0, price), Snap(CumQty(1), 12, price) }

\* Open-order lists offered with a position snapshot: a take-profit that is
\* half a quantity step and one price tick off the target, none, one that is a
\* whole step off in quantity, and two reduce-only orders.
OrderLists(st, pos, price) ==
    LET dir == IF st.direction = "none" THEN "long" ELSE st.direction
        q == Abs(pos.amt)
        target == _tp_price(IF pos.entry > 0 THEN pos.entry ELSE price, q, dir)
    IN  << << Order(TRUE, q + 1, target + PriceTick, 9) >>,
           << >>,
           << Order(TRUE, q + QtyStep, target, 9) >>,
           << Order(TRUE, q, target, 9), Order(TRUE, QtyStep, target, 9) >> >>

TradeLists ==
    { None, Some(<< Trade(TRUE, CumQty(1), 12, 1, 7) >>) }

HasCall(E, op) == \E i \in 1..Len(E.calls) : E.calls[i].op = op
HasVia(E, via) == \E i \in 1..Len(E.calls) : E.calls[i].via = via

\* the inputs of a tick that differ in what the call reads before it decides
\* on an order
TickEarly(E, b) ==
    LET st == E.state
    IN  { BaseIn(price, FALSE, Snap(0, 0, price)) : price \in Prices }
        \cup
        UNION { UNION { { [BaseIn(price, TRUE, pos) EXCEPT
                              !.orders = ol, !.trades = tr] :
                            ol \in IF pos.amt = 0 THEN { << >> }
                                   ELSE IF pos.mark # price \/ st.direction = "none"
                                   THEN { OrderLists(st, pos, price)[1] }
                                   ELSE { OrderLists(st, pos, price)[i] : i \in 1..4 },
                            tr \in IF pos.amt # 0 /\ st.direction # "none"
                                      /\ st.entry_order_ids = << >>
                                   THEN TradeLists ELSE { None } } :
                        pos \in Snapshots(st, price) } :
                price \in Prices }

\* an on_price call on these inputs, with its result
Run(E, b, in) == [ in |-> in, r |-> on_price(E, b, in, now) ]

\* The inputs are refined in two rounds, each looking at what the call does
\* with the inputs so far: round 2 varies the account balance when the call
\* closes a basket, round 1 the answers to its market order when it places one.
Variants(x, k) ==
    IF k = 2 /\ x.r.E.resets > 0
    THEN { [x.in EXCEPT !.wallet = w] : w \in { None, Some(105) } }
    ELSE IF k = 1 /\ HasCall(x.r.E, "market")
    THEN { [x.in EXCEPT !.mkts = << m >>] : m \in MarketInputs }
    ELSE { x.in }

RECURSIVE Refine(_, _, _, _)
Refine(E, b, ins, k) ==
    LET runs == { Run(E, b, in) : in \in ins }
    IN  IF k = 0 THEN runs
        ELSE Refine(E, b, UNION { Variants(x, k) : x \in runs }, k - 1)

TickRuns(E, b) == Refine(E, b, TickEarly(E, b), 2)

\* ------------------------------------------------------------------ runner.py
\* main() up to its polling loop: load the state, seed the indicator from the
\* klines (in.closes, None when the query fails), reconcile with the exchange
\* (skipped when a query raises BinanceAPIError) and force-seed when --seed is
\* given and a price was fetched.
main_startup(f, in, t) ==
    LET E0 == Ctx(load(f), f, in.argDrain, 0, 0)
        b == IF IsNone(in.closes) THEN NewBB ELSE seed_indicator(NewBB, Val(in.closes))
        E1 == IF in.priceOk /\ in.posOk /\ in.ordersOk
              THEN reconcile_position(E0, in.price, in.pos, in.orders, in.trades, t)
              ELSE E0
        E2 == IF in.seed # "none" /\ in.priceOk /\ in.price # 0
              THEN [force_seed(E1, IF in.seed = "buy" THEN "long" ELSE "short",
                               in.price, in, t) EXCEPT !.exc = "none"]
              ELSE E1
    IN  [E |-> E2, bb |-> b, mid |-> None]

StartSnapshots(st, price) ==
    IF st.direction # "none" THEN Snapshots(st, price)
    ELSE { Snap(0, 0, price), Snap(CumQty(1), 12, price),
           Snap(-(CumQty(MaxLevels) + QtyStep), 12, price) }

AdoptLists ==
    { [ orders |-> << >>, trades |-> None ],
      [ orders |-> << Order(TRUE, 1, 12, 9), Order(TRUE, 1, 12, 9) >>, trades |-> None ],
      [ orders |-> << >>, trades |-> Some(<< Trade(TRUE, CumQty(1), 12, 1, 7) >>) ] }

\* the inputs of a start that differ in what main() reads before it seeds
StartEarly(f) ==
    LET st == load(f)
        price == 12
        base == { [BaseIn(price, TRUE, Snap(0, 0, price)) EXCEPT !.argDrain = dr, !.closes = cl] :
                    dr \in BOOLEAN, cl \in { None, Some(<< 10, 10, 10 >>) } }
        recon == { [in EXCEPT !.posOk = FALSE] : in \in base }
                 \cup { [in EXCEPT !.pos = pos] :
                          in \in base, pos \in { x \in StartSnapshots(st, price) :
                                                    x.amt = 0 \/ st.direction # "none" } }
                 \cup { [in EXCEPT !.pos = pos, !.orders = al.orders, !.trades = al.trades] :
                          in \in base, al \in AdoptLists,
                          pos \in { x \in StartSnapshots(st, price) :
                                      x.amt # 0 /\ st.direction = "none" } }
    IN  recon

\* main() on these inputs, with its result
StartRun(f, in) == [ in |-> in, r |-> main_startup(f, in, now) ]

\* --seed is varied when the reconciled state is flat (round 2), the answers
\* to the seed's market order when it places one (round 1)
StartVariants(x, k) ==
    IF k = 2 /\ x.r.E.state.direction = "none"
    THEN { [x.in EXCEPT !.seed = sd] : sd \in { "none", "buy", "sell" } }
    ELSE IF k = 1 /\ HasCall(x.r.E, "market")
    THEN { [x.in EXCEPT !.mkts = << m >> ] : m \in MarketInputs }
    ELSE { x.in }

RECURSIVE RefineStart(_, _, _)
RefineStart(f, ins, k) ==
    LET runs == { StartRun(f, in) : in \in ins }
    IN  IF k = 0 THEN runs
        ELSE RefineStart(f, UNION { StartVariants(x, k) : x \in runs }, k - 1)

StartRuns(f) == RefineStart(f, StartEarly(f), 2)

\* ------------------------------------------------------------- specification
ObsOf(op, in, r) ==
    [ op |-> op, posOk |-> in.posOk, pos |-> in.pos, orders |-> in.orders, calls |-> r.E.calls, emitted |-> r.E.emitted,
      ledger |-> r.E.ledger, resets |-> r.E.resets, exc |-> r.E.exc ]

Idle(op) ==
    [ op |-> op, posOk |-> FALSE, pos |-> Snap(0, 0, 0), orders |-> << >>, calls |-> << >>, emitted |-> << >>, ledger |-> << >>,
      resets |-> 0, exc |-> "none" ]

NoTwin == << >>

Configs == { [ cooldown_minutes |-> c ] : c \in { 0, CooldownMinutes } }

Init ==
    /\ cfg \in Configs
    /\ pc = "down"
    /\ now = 1
    /\ state = EmptyState
    /\ bb = NewBB
    /\ drain = FALSE
    /\ session = [ grids |-> 0, gain |-> 0 ]
    /\ file = NoFile
    /\ obs = Idle("init")
    /\ twin = NoTwin

Commit(op, in, r) ==
    /\ state' = r.E.state
    /\ file' = r.E.saved
    /\ drain' = r.E.drain
    /\ session' = [ grids |-> r.E.grids, gain |-> r.E.gain ]
    /\ bb' = r.bb
    /\ obs' = ObsOf(op, in, r)

\* a process is started: main() runs up to its loop
Start ==
    /\ pc = "down"
    /\ \E x \in StartRuns(file) : Commit("start", x.in, x.r)
    /\ pc' = "loop"
    /\ UNCHANGED << cfg, now, twin >>

\* one iteration of the polling loop: get_price, then on_price; the loop
\* catches and logs whatever on_price raises
Tick ==
    /\ pc = "loop"
    /\ LET E == Ctx(state, file, drain, session.grids, session.gain)
       IN  \E x \in TickRuns(E, bb) : Commit("tick", x.in, x.r)
    /\ UNCHANGED << cfg, pc, now, twin >>

\* the process ends between two iterations; only the state file survives
Stop ==
    /\ pc = "loop"
    /\ pc' = "down"
    /\ state' = EmptyState
    /\ bb' = NewBB
    /\ drain' = FALSE
    /\ session' = [ grids |-> 0, gain |-> 0 ]
    /\ obs' = Idle("stop")
    /\ UNCHANGED << cfg, now, file, twin >>

\* time passes
Advance ==
    /\ now < MaxTime
    /\ now' = now + 1
    /\ obs' = Idle("advance")
    /\ UNCHANGED << cfg, pc, state, bb, drain, session, file, twin >>

Next == Start \/ Tick \/ Stop \/ Advance

Spec == Init /\ [][Next]_vars

\* ------------------------------------------------- two engines, one with drain
\* Two strategy objects in the same ACTIVE state get the same prices and the
\* same answers of the exchange. The first (state, bb, drain, session, file,
\* obs) has drain_mode False, the second (twin) has drain_mode True. They are
\* run until the basket they started with is closed.

TwinOf(E, b, o, midA, midB, closed) ==
    [ state |-> E.state, file |-> E.saved, drain |-> E.drain,
      session |-> [ grids |-> E.grids, gain |-> E.gain ], bb |-> b, obs |-> o,
      midA |-> midA, midB |-> midB, closed |-> closed ]

\* the state after _start_position has opened a basket in `direction` at `price`
Opened(direction, price) ==
    force_seed(Ctx(EmptyState, NoFile, FALSE, 0, 0), direction, price,
               BaseIn(price, TRUE, Snap(0, 0, price)), 1)

InitDrain ==
    /\ cfg \in Configs
    /\ pc = "loop"
    /\ now = 1
    /\ bb = NewBB
    /\ drain = FALSE
    /\ session = [ grids |-> 0, gain |-> 0 ]
    /\ obs = Idle("init")
    /\ \E direction \in { "short", "long" }, price \in Prices :
          LET E == Opened(direction, price)
          IN  /\ state = E.state
              /\ file = E.saved
              /\ twin = TwinOf([E EXCEPT !.drain = TRUE], NewBB, Idle("init"),
                               None, None, FALSE)

\* one iteration of the polling loop in both processes
TickBoth ==
    /\ pc = "loop"
    /\ ~twin.closed
    /\ \E x \in TickRuns(Ctx(state, file, drain, session.grids, session.gain), bb) :
          LET y == Run(Ctx(twin.state, twin.file, twin.drain,
                           twin.session.grids, twin.session.gain), twin.bb, x.in)
          IN  /\ Commit("tick", x.in, x.r)
              /\ twin' = TwinOf(y.r.E, y.r.bb, ObsOf("tick", x.in, y.r),
                                x.r.mid, y.r.mid,
                                x.r.E.resets > 0 \/ y.r.E.resets > 0)
    /\ UNCHANGED << cfg, pc, now >>

\* time passes for both
AdvanceBoth ==
    /\ now < MaxTime
    /\ ~twin.closed
    /\ now' = now + 1
    /\ obs' = Idle("advance")
    /\ twin' = [twin EXCEPT !.obs = Idle("advance")]
    /\ UNCHANGED << cfg, pc, state, bb, drain, session, file >>

NextDrain == TickBoth \/ AdvanceBoth

SpecDrain == InitDrain /\ [][NextDrain]_vars

\* ------------------------------------------------- StateStore.save, step by step
\* save() line by line, with a process that can be killed between any two
\* steps and a reader that loads the file while a save is in progress. A path
\* of the directory names a file (inode) with its content: `data` is the JSON
\* text being written, `chunks` how much of it has reached the file, `ok`
\* whether the text is complete (json.load parses it). `file` is the state
\* path; twin holds the temporary path, the reader's open handle and, for the
\* properties, the state of the last completed save and of the one in progress.

MaxChunks == 2
MaxSaves == 3

Absent ==
    [ exists |-> FALSE, ok |-> FALSE, data |-> json_dump(to_dict(EmptyState)),
      ino |-> 0, chunks |-> 0 ]

\* a temporary path that is the state path itself
tmp_path_InPlace == "real"

\* save, line 26: self.path.with_suffix(".tmp")
tmp_path == "tmp"

\* open(path, "w"): truncates the file of an existing path, creates one otherwise
fs_open_w(dir, path, ino, d) ==
    [dir EXCEPT ![path] = [ exists |-> TRUE, ok |-> FALSE, data |-> d,
                            ino |-> IF @.exists THEN @.ino ELSE ino, chunks |-> 0 ]]

\* one more part of the text reaches the file
fs_write(dir, path) ==
    [dir EXCEPT ![path].chunks = @ + 1,
                ![path].ok = (dir[path].chunks + 1 = MaxChunks)]

\* Path.replace: the rename
fs_replace(dir, src, dst) ==
    IF src = dst THEN dir ELSE [dir EXCEPT ![dst] = dir[src], ![src] = Absent]

Dir == [ real |-> file, tmp |-> twin.tmp ]

\* GridStates the engine saves
StoreStates ==
    { EmptyState, Opened("short", 10).state, Opened("long", 12).state,
      [EmptyState EXCEPT !.cooldown_until_ts = Some(1 + CooldownMinutes)] }

NoReader == [ open |-> FALSE, ino |-> 0, snap |-> Absent, old |-> EmptyState, new |-> EmptyState ]

\* what a load() returned, and the states the saves around it had completed
\* (old) and begun (new); torn: the text it read was incomplete
Loaded(content, old, new) ==
    [ op |-> "load", got |-> load(content), torn |-> content.exists /\ ~content.ok,
      old |-> old, new |-> new ]

InitStore ==
    /\ cfg = [ cooldown_minutes |-> 0 ]
    /\ pc = "loop"
    /\ now = 1
    /\ state = EmptyState
    /\ bb = NewBB
    /\ drain = FALSE
    /\ session = [ grids |-> 0, gain |-> 0 ]
    /\ file = Absent
    /\ obs = Idle("init")
    /\ twin = [ tmp |-> Absent, reader |-> NoReader, committed |-> EmptyState,
                pending |-> EmptyState, saves |-> 0 ]

\* save, lines 26-27: the engine has changed its GridState and opens the
\* temporary file for writing
SaveOpen ==
    /\ pc = "loop"
    /\ twin.saves < MaxSaves
    /\ \E S \in StoreStates \ { state } :
          LET dir == fs_open_w(Dir, tmp_path, twin.saves + 1, json_dump(to_dict(S)))
          IN  /\ state' = S
              /\ file' = dir.real
              /\ twin' = [twin EXCEPT !.tmp = dir.tmp, !.pending = S, !.saves = @ + 1]
    /\ pc' = "opened"
    /\ obs' = Idle("save")
    /\ UNCHANGED << cfg, now, bb, drain, session >>

\* save, line 28: json.dump writes the text; the with block closes the file
SaveDump ==
    /\ pc = "opened"
    /\ LET dir == fs_write(Dir, tmp_path)
       IN  /\ file' = dir.real
           /\ twin' = [twin EXCEPT !.tmp = dir.tmp]
           /\ pc' = IF dir[tmp_path].ok THEN "dumped" ELSE "opened"
    /\ obs' = Idle("save")
    /\ UNCHANGED << cfg, now, state, bb, drain, session >>

\* save, line 29: tmp_path.replace(self.path)
SaveReplace ==
    /\ pc = "dumped"
    /\ LET dir == fs_replace(Dir, tmp_path, "real")
       IN  /\ file' = dir.real
           /\ twin' = [twin EXCEPT !.tmp = dir.tmp, !.committed = twin.pending]
    /\ pc' = "loop"
    /\ obs' = Idle("save")
    /\ UNCHANGED << cfg, now, state, bb, drain, session >>

\* the process is terminated, at any point
Crash ==
    /\ pc # "down"
    /\ pc' = "down"
    /\ state' = EmptyState
    /\ obs' = Idle("stop")
    /\ UNCHANGED << cfg, now, bb, drain, session, file, twin >>

\* the next process starts: GridBollingerStrategy.__init__ loads the state
Restart ==
    /\ pc = "down"
    /\ pc' = "loop"
    /\ state' = load(file)
    /\ obs' = Loaded(file, twin.committed, twin.pending)
    /\ twin' = [twin EXCEPT !.committed = load(file), !.pending = load(file)]
    /\ UNCHANGED << cfg, now, bb, drain, session, file >>

\* load, lines 16-19, in another process: exists(), then open()
ReaderOpen ==
    /\ ~twin.reader.open
    /\ IF ~file.exists
       THEN /\ obs' = Loaded(file, twin.committed, twin.pending)
            /\ twin' = twin
       ELSE /\ obs' = Idle("open")
            /\ twin' = [twin EXCEPT !.reader =
                            [ open |-> TRUE, ino |-> file.ino, snap |-> file,
                              old |-> twin.committed, new |-> twin.pending ]]
    /\ UNCHANGED << cfg, pc, now, state, bb, drain, session, file >>

\* load, lines 20-23, in another process: json.load reads the file it opened,
\* which is the file of the state path only while no rename has replaced it
ReaderRead ==
    /\ twin.reader.open
    /\ obs' = Loaded(IF file.exists /\ file.ino = twin.reader.ino
                     THEN file ELSE twin.reader.snap,
                     twin.reader.old, twin.reader.new)
    /\ twin' = [twin EXCEPT !.reader = NoReader]
    /\ UNCHANGED << cfg, pc, now, state, bb, drain, session, file >>

NextStore ==
    SaveOpen \/ SaveDump \/ SaveReplace \/ Crash \/ Restart \/ ReaderOpen \/ ReaderRead

SpecStore == InitStore /\ [][NextStore]_vars

\* ------------------------------------------------- ticks with failing calls
\* The polling loop when calls to the exchange, the close-callback and the
\* ledger can fail: get_open_orders raises (ordersOk), get_position_info
\* raises (posOk), get_account raises (wallet), the market order is rejected,
\* reported unfilled or confirmed only by the position, the take-profit order
\* is refused, the callback or the ledger append raises.

\* reported with executedQty 0 while the position did not move
MNoDelta == [MFilled(0) EXCEPT !.executedQty = 0]

FaultMarkets ==
    { MFilled(12), MUnconfirmed, MNoDelta, MRejected, MConfirmed(12) }

FaultEarly(E) ==
    LET st == E.state
    IN  { BaseIn(price, FALSE, Snap(0, 0, price)) : price \in Prices }
        \cup
        UNION { UNION { { [BaseIn(price, TRUE, pos) EXCEPT !.orders = ol] :
                            ol \in IF pos.amt = 0 THEN { << >> }
                                   ELSE { OrderLists(st, pos, price)[1], << >> } }
                        \cup { [BaseIn(price, TRUE, pos) EXCEPT !.ordersOk = FALSE] } :
                        pos \in Snapshots(st, price) } :
                price \in Prices }

\* round 3 varies the callback, the ledger and the balance when the call
\* closes a basket, round 2 the answers to its market order and to the
\* get_account before it when it places one, round 1 the answer to the
\* take-profit order that follows a fill
FaultVariants(x, k) ==
    IF k = 3 /\ x.r.E.resets > 0
    THEN { [x.in EXCEPT !.cbOk = cb, !.ledgerOk = lg, !.wallet = w] :
             cb \in BOOLEAN, lg \in BOOLEAN, w \in { None, Some(105) } }
    ELSE IF k = 2 /\ HasCall(x.r.E, "market")
    THEN { [x.in EXCEPT !.mkts = << m >>, !.startWallet = sw] :
             m \in FaultMarkets, sw \in { None, Some(100) } }
    ELSE IF k = 1 /\ HasVia(x.r.E, "place_tp")
    THEN { [x.in EXCEPT !.tps = << tp >>] : tp \in { TpOk, TpFails } }
    ELSE { x.in }

RECURSIVE RefineFaults(_, _, _, _)
RefineFaults(E, b, ins, k) ==
    LET runs == { Run(E, b, in) : in \in ins }
    IN  IF k = 0 THEN runs
        ELSE RefineFaults(E, b, UNION { FaultVariants(x, k) : x \in runs }, k - 1)

FaultRuns(E, b) == RefineFaults(E, b, FaultEarly(E), 3)

\* what the tick was given and what it did; mid is the GridState that the
\* close handling left to the entry decision
FaultObs(in, r) ==
    [ op |-> "tick", in |-> in, calls |-> r.E.calls,
      emitted |-> r.E.emitted, ledger |-> r.E.ledger, resets |-> r.E.resets,
      exc |-> r.E.exc, mid |-> r.mid ]

InitFaults ==
    /\ cfg \in Configs
    /\ pc = "loop"
    /\ now = 1
    /\ bb = seed_indicator(NewBB, << 10, 10, 10 >>)
    /\ drain = FALSE
    /\ session = [ grids |-> 0, gain |-> 0 ]
    /\ obs = Idle("init")
    /\ twin = NoTwin
    /\ state \in { EmptyState, Opened("short", 10).state, Opened("long", 12).state }
    /\ file = IF state = EmptyState THEN NoFile ELSE FileOf(to_dict(state))

\* one iteration of the polling loop; the loop catches what on_price raises
\* and sleeps poll_interval_seconds, here one unit of the clock
FaultTick ==
    /\ pc = "loop"
    /\ obs.op # "tick"
    /\ \E x \in FaultRuns(Ctx(state, file, drain, session.grids, session.gain), bb) :
          /\ state' = x.r.E.state
          /\ file' = x.r.E.saved
          /\ drain' = x.r.E.drain
          /\ session' = [ grids |-> x.r.E.grids, gain |-> x.r.E.gain ]
          /\ bb' = x.r.bb
          /\ obs' = FaultObs(x.in, x.r)
    /\ UNCHANGED << cfg, pc, now, twin >>

NextFaults == FaultTick \/ Advance

SpecFaults == InitFaults /\ [][NextFaults]_vars

\* ------------------------------------------- ticks on an ACTIVE basket alone
\* on_price on a basket of one level, with the indicator seeded, the position
\* the basket built, its take-profit in place, any mark price on the grid
\* and market orders filled at the mark price or one spacing before it.

ExtendMarks == { 8, 10, 12, 14 }

ExtendStates == { Opened("short", 10).state, Opened("long", 12).state }

\* the answers to a tick at this mark price whose market orders fill at the
\* prices px1 (first order) and px2 (later orders)
ExtendIn(st, mark, px1, px2) ==
    LET amt == (IF st.direction = "long" THEN 1 ELSE -1) * CumQty(st.levels_filled)
        pos == Snap(amt, Val(st.last_entry_price), mark)
    IN  [BaseIn(mark, TRUE, pos) EXCEPT
           !.orders = OrderLists(st, pos, mark)[1],
           !.mkts = << MFilled(px1), MFilled(px2) >>]

InitExtend ==
    /\ cfg = [ cooldown_minutes |-> 0 ]
    /\ pc = "loop"
    /\ now = 1
    /\ state \in ExtendStates
    /\ bb = seed_indicator(NewBB, << 10, 12, 11 >>)
    /\ drain = FALSE
    /\ session = [ grids |-> 0, gain |-> 0 ]
    /\ file = FileOf(to_dict(state))
    /\ obs = Idle("init")
    /\ twin = NoTwin

\* strat.on_price(price) while the basket is open
ExtendTick ==
    /\ state.direction # "none"
    /\ \E mark \in ExtendMarks, d1 \in { 0, GridSpacing }, d2 \in { 0, GridSpacing } :
          LET away == IF state.direction = "short" THEN -1 ELSE 1
              in == ExtendIn(state, mark, mark + away * d1, mark + away * d2)
          IN  Commit("tick", in, Run(Ctx(state, file, drain, session.grids, session.gain),
                                     bb, in).r)
    /\ UNCHANGED << cfg, pc, now, twin >>

\* the basket is closed and another one of one level is open
ExtendAgain ==
    /\ obs.op = "tick"
    /\ \E S \in ExtendStates :
          /\ state' = S
          /\ file' = FileOf(to_dict(S))
    /\ bb' = seed_indicator(NewBB, << 10, 12, 11 >>)
    /\ obs' = Idle("operate")
    /\ UNCHANGED << cfg, pc, now, drain, session, twin >>

NextExtend == ExtendTick \/ ExtendAgain

SpecExtend == InitExtend /\ [][NextExtend]_vars

\* ------------------------------------- _populate_entries_from_trades alone
\* _populate_entries_from_trades on an ACTIVE state without entry order ids,
\* for every short trade history get_user_trades may answer (or its failure)
\* and the position sizes of one and two levels.

MaxTrades == 3

\* the trade at place i of a history: its time and order id follow the place,
\* its price alternates
TradeAt(i, buyer, qty) == Trade(buyer, qty, IF i % 2 = 1 THEN 12 ELSE 10, i, 6 + i)

RECURSIVE Histories(_)
Histories(n) ==
    IF n = 0 THEN { << >> }
    ELSE LET shorter == Histories(n - 1)
         IN  shorter
             \cup { Append(h, TradeAt(n, b, q)) :
                      h \in { x \in shorter : Len(x) = n - 1 },
                      b \in BOOLEAN, q \in { LevelQty(1), 2 * LevelQty(1) } }

\* what get_user_trades answers: a failure, or a history in arrival order or
\* newest first
TradeAnswers ==
    { None } \cup { Some(h) : h \in Histories(MaxTrades) }
             \cup { Some(Reverse(h)) : h \in Histories(MaxTrades) }

TradeStates ==
    { [Opened("long", 12).state EXCEPT !.entry_order_ids = << >>],
      [Opened("short", 10).state EXCEPT !.entry_order_ids = << >>] }

InitTrades ==
    /\ cfg = [ cooldown_minutes |-> 0 ]
    /\ pc = "loop"
    /\ now = 1
    /\ state \in TradeStates
    /\ bb = NewBB
    /\ drain = FALSE
    /\ session = [ grids |-> 0, gain |-> 0 ]
    /\ file = FileOf(to_dict(state))
    /\ obs = Idle("init")
    /\ twin = NoTwin

\* if self._populate_entries_from_trades(abs(position_qty), direction): save
Populate ==
    /\ obs.op # "populate"
    /\ \E tr \in TradeAnswers, qty \in { CumQty(1), CumQty(2) } :
          LET r == _populate_entries_from_trades(Ctx(state, file, FALSE, 0, 0), qty,
                                                 state.direction, tr, now)
              E1 == SaveIf(r)
          IN  /\ state' = E1.state
              /\ file' = E1.saved
              /\ obs' = [ op |-> "populate", tr |-> tr, qty |-> qty, before |-> state,
                          ok |-> r.ok, exc |-> E1.exc, saves |-> E1.saves,
                          calls |-> E1.calls ]
    /\ UNCHANGED << cfg, pc, now, bb, drain, session, twin >>

\* the engine is back in a state without entry order ids
Forget ==
    /\ obs.op = "populate"
    /\ \E S \in TradeStates :
          /\ state' = S
          /\ file' = FileOf(to_dict(S))
    /\ obs' = Idle("operate")
    /\ UNCHANGED << cfg, pc, now, bb, drain, session, twin >>

NextTrades == Populate \/ Forget

SpecTrades == InitTrades /\ [][NextTrades]_vars

\* ------------------------------------------------- level_qty alone
\* level_qty for one grid shape after the other level: twin holds the
\* arguments (quantities in tenths of a unit, the multiplier as mnum / mden),
\* the level, its quantity and the quantity of the level before.

MaxQtyLevel == 5

GridShapes ==
    { [ base_qty |-> b, repeat_every |-> r, mnum |-> m[1], mden |-> m[2], step |-> st ] :
        b \in { 10, 15, 20 }, r \in { 1, 2, 3 },
        m \in { << 1, 1 >>, << 3, 2 >>, << 2, 1 >> }, st \in { 1, 10 } }

QtyOf(shape, level) ==
    level_qty(level, shape.base_qty, shape.repeat_every, shape.mnum, shape.mden, shape.step)

InitQty ==
    /\ cfg = [ cooldown_minutes |-> 0 ]
    /\ pc = "loop"
    /\ now = 1
    /\ state = EmptyState
    /\ bb = NewBB
    /\ drain = FALSE
    /\ session = [ grids |-> 0, gain |-> 0 ]
    /\ file = NoFile
    /\ obs = Idle("init")
    /\ \E shape \in GridShapes :
          twin = [ shape |-> shape, level |-> 1, qty |-> QtyOf(shape, 1), prev |-> 0 ]

\* level_qty(level + 1, ...)
QtyNextLevel ==
    /\ twin.level < MaxQtyLevel
    /\ twin' = [twin EXCEPT !.level = @ + 1,
                            !.qty = QtyOf(twin.shape, twin.level + 1),
                            !.prev = twin.qty]
    /\ obs' = Idle("level")
    /\ UNCHANGED << cfg, pc, now, state, bb, drain, session, file >>

NextQty == QtyNextLevel

SpecQty == InitQty /\ [][NextQty]_vars

\* ------------------------------------------------- the indicator alone
\* BollingerBands fed sample by sample, or seeded from a list of closes and
\* then fed; twin counts the samples added so far.

MaxAdds == 5

Samples == { 8, 10, 12, 13 }

SeedLists == { << >>, << 10 >>, << 8, 13 >>, << 13, 10, 8, 10 >> }

InitBands ==
    /\ cfg = [ cooldown_minutes |-> 0 ]
    /\ pc = "loop"
    /\ now = 1
    /\ state = EmptyState
    /\ bb = NewBB
    /\ drain = FALSE
    /\ session = [ grids |-> 0, gain |-> 0 ]
    /\ file = NoFile
    /\ obs = Idle("init")
    /\ twin = [ added |-> 0, hist |-> << >> ]

\* seed_indicator(closes) on the new indicator
BandsSeed ==
    /\ twin.added = 0
    /\ obs.op = "init"
    /\ \E closes \in SeedLists :
          /\ bb' = seed_indicator(bb, closes)
          /\ twin' = [ added |-> Min(Len(closes), Period),
                       hist |-> SubSeq(closes, Len(closes) - Min(Len(closes), Period) + 1,
                                       Len(closes)) ]
    /\ obs' = Idle("seed")
    /\ UNCHANGED << cfg, pc, now, state, drain, session, file >>

\* bb.add(price)
BandsAdd ==
    /\ twin.added < MaxAdds
    /\ \E value \in Samples :
          /\ bb' = bb_add(bb, value)
          /\ twin' = [ added |-> twin.added + 1, hist |-> Append(twin.hist, value) ]
    /\ obs' = Idle("add")
    /\ UNCHANGED << cfg, pc, now, state, drain, session, file >>

NextBands == BandsSeed \/ BandsAdd

SpecBands == InitBands /\ [][NextBands]_vars

\* ------------------------------------------- the breach test for any period
\* The first lines of on_price and its breach test for indicators of other
\* periods and widths: twin holds period, the width k (stddev), the window
\* with its running sums, and whether the last tick met the entry test.
\* bands() computes mean, variance and square root in floating point, so a
\* band that lies exactly on the price in exact arithmetic is computed a
\* rounding error above it, below it, or on it; `err` is the sign of that
\* error.

\* BollingerBands.add for an indicator of this period
AddFor(period, b, value) ==
    LET full == Len(b.window) = period
        oldest == IF full THEN b.window[1] ELSE 0
        w1 == IF full THEN Tail(b.window) ELSE b.window
    IN  [ window |-> Append(w1, value),
          sum |-> (IF full THEN b.sum - oldest ELSE b.sum) + value,
          sumsq |-> (IF full THEN b.sumsq - oldest * oldest ELSE b.sumsq) + value * value ]

\* price > upper or price < lower for the bands of a full window, the bands
\* computed with a rounding error of sign err
BreachFor(period, k, b, price, err) ==
    LET d == period * price - b.sum
        kvar == k * k * Max(period * b.sumsq - b.sum * b.sum, 0)
    IN  \/ d > 0 /\ d * d > kvar
        \/ d < 0 /\ d * d > kvar
        \/ d >= 0 /\ d * d = kvar /\ err < 0
        \/ d <= 0 /\ d * d = kvar /\ err > 0

BreachShapes ==
    { [ period |-> 2, k |-> 1 ], [ period |-> 2, k |-> 2 ], [ period |-> 3, k |-> 2 ],
      [ period |-> 5, k |-> 2 ], [ period |-> 3, k |-> 1 ] }

InitBreach ==
    /\ cfg = [ cooldown_minutes |-> 0 ]
    /\ pc = "loop"
    /\ now = 1
    /\ state = EmptyState
    /\ bb = NewBB
    /\ drain = FALSE
    /\ session = [ grids |-> 0, gain |-> 0 ]
    /\ file = NoFile
    /\ obs = Idle("init")
    /\ \E shape \in BreachShapes :
          twin = [ period |-> shape.period, k |-> shape.k, b |-> NewBB, added |-> 0,
                   price |-> 0, err |-> 0, opens |-> FALSE ]

\* self.bb.add(price); bands = self.bb.bands(); price > upper or price < lower
BreachTick ==
    /\ twin.added < MaxAdds
    /\ \E price \in Samples, err \in { -1, 0, 1 } :
          LET b1 == AddFor(twin.period, twin.b, price)
          IN  twin' = [twin EXCEPT
                         !.b = b1, !.added = @ + 1, !.price = price, !.err = err,
                         !.opens = /\ Len(b1.window) = twin.period
                                   /\ BreachFor(twin.period, twin.k, b1, price, err)]
    /\ obs' = Idle("tick")
    /\ UNCHANGED << cfg, pc, now, state, bb, drain, session, file >>

NextBreach == BreachTick

SpecBreach == InitBreach /\ [][NextBreach]_vars

\* ------------------------------------------------- the ledger across restarts
\* The engine against an exchange that keeps the position: market orders fill
\* at the ticker price, the take-profit order closes the position at some
\* time (also while the process is down), and the ledger file collects the
\* rows appended by BasketRecorder.append. twin holds the exchange's position
\* (amt, entry), the rows of the ledger file, the number of positions closed
\* and the id of the basket this process opened last (0: none yet).

MaxCloses == 2

\* BasketRecorder.append: the row written for a summary
append(rows, summary) ==
    Append(rows, [ basket_id |-> summary.basket_id, direction |-> summary.direction,
                   levels |-> summary.levels, open_at |-> summary.open_at ])

RECURSIVE AppendAll(_, _)
AppendAll(rows, summaries) ==
    IF summaries = << >> THEN rows
    ELSE AppendAll(append(rows, Head(summaries)), Tail(summaries))

\* the position after the market orders of a call have filled
RECURSIVE Filled(_, _)
Filled(amt, calls) ==
    IF calls = << >> THEN amt
    ELSE Filled(IF Head(calls).op # "market" THEN amt
                ELSE IF Head(calls).side = "BUY" THEN amt + Head(calls).qty
                ELSE amt - Head(calls).qty,
                Tail(calls))

\* what the exchange answers for its position and open orders at `price`,
\* and for a market order: filled at the price, with or without a fill time
LedgerIn(price, posOk, withTs) ==
    LET pos == Snap(twin.amt, IF twin.amt = 0 THEN 0 ELSE twin.entry, price)
    IN  [BaseIn(price, posOk, pos) EXCEPT
           !.orders = IF twin.amt = 0 THEN << >> ELSE OrderLists(state, pos, price)[1],
           !.closes = Some(<< 10, 10, 10 >>),
           !.mkts = << IF withTs THEN MFilled(price)
                       ELSE [MFilled(price) EXCEPT !.ts = None] >>]

LedgerCommit(op, in, r) ==
    /\ Commit(op, in, r)
    /\ twin' = [twin EXCEPT
                  !.amt = Filled(@, r.E.calls),
                  !.entry = IF HasCall(r.E, "market") THEN in.price ELSE @,
                  !.rows = AppendAll(@, r.E.ledger),
                  !.last = IF HasVia(r.E, "start") /\ r.E.state.basket_id # 0
                           THEN r.E.state.basket_id ELSE @]

InitLedger ==
    /\ cfg \in Configs
    /\ pc = "down"
    /\ now = 1
    /\ state = EmptyState
    /\ bb = NewBB
    /\ drain = FALSE
    /\ session = [ grids |-> 0, gain |-> 0 ]
    /\ file = NoFile
    /\ obs = Idle("init")
    /\ twin = [ amt |-> 0, entry |-> 0, rows |-> << >>, closed |-> 0, last |-> 0 ]

\* main() up to its loop; the reconciliation is skipped when a query fails
LedgerStart ==
    /\ pc = "down"
    /\ \E posOk \in BOOLEAN :
          LET in == LedgerIn(12, posOk, TRUE)
          IN  LedgerCommit("start", in, main_startup(file, in, now))
    /\ pc' = "loop"
    /\ UNCHANGED << cfg, now >>

\* one iteration of the polling loop
LedgerTick ==
    /\ pc = "loop"
    /\ Len(twin.rows) <= MaxCloses
    /\ \E price \in Prices, withTs \in BOOLEAN :
          LET x == Run(Ctx(state, file, drain, session.grids, session.gain), bb,
                       LedgerIn(price, TRUE, withTs))
          IN  LedgerCommit("tick", x.in, x.r)
    /\ UNCHANGED << cfg, pc, now >>

\* the process ends between two iterations
LedgerStop ==
    /\ pc = "loop"
    /\ pc' = "down"
    /\ state' = EmptyState
    /\ bb' = NewBB
    /\ drain' = FALSE
    /\ session' = [ grids |-> 0, gain |-> 0 ]
    /\ obs' = Idle("stop")
    /\ twin' = [twin EXCEPT !.last = 0]
    /\ UNCHANGED << cfg, now, file >>

\* the exchange fills the take-profit order: the position is closed
TpFill ==
    /\ twin.amt # 0
    /\ twin.closed < MaxCloses
    /\ twin' = [twin EXCEPT !.amt = 0, !.closed = @ + 1]
    /\ obs' = Idle("fill")
    /\ UNCHANGED << cfg, pc, now, state, bb, drain, session, file >>

\* time passes
LedgerAdvance ==
    /\ now < MaxTime
    /\ now' = now + 1
    /\ obs' = Idle("advance")
    /\ UNCHANGED << cfg, pc, state, bb, drain, session, file, twin >>

NextLedger == LedgerStart \/ LedgerTick \/ LedgerStop \/ TpFill \/ LedgerAdvance

SpecLedger == InitLedger /\ [][NextLedger]_vars

\* ------------------------------------------------- reconcile_position alone
\* reconcile_position on any local GridState and any exchange snapshot. The
\* local state is one the engine has left in memory and in the file: empty,
\* in cooldown, ACTIVE at level 1 or 2, or flat with entry prices (the state
\* on_price leaves when it meets a position it has no basket for).

LocalStates ==
    StoreStates
    \cup { [Opened("short", 10).state EXCEPT
               !.levels_filled = 2, !.last_entry_price = Some(12),
               !.next_entry_price = Some(14), !.max_volume = CumQty(2),
               !.entry_order_ids = << 7, 8 >>],
           [Opened("long", 12).state EXCEPT !.entry_order_ids = << >>,
                                           !.tp_order_ids = << >>],
           [EmptyState EXCEPT !.last_entry_price = Some(12),
                              !.next_entry_price = Some(10)] }

\* what get_price, get_position_info, get_open_orders answered at startup and
\* what get_user_trades answers when asked
ReconcilePositions(price) ==
    { Snap(0, 0, price), Snap(CumQty(1), 12, price),
      Snap(-CumQty(MaxLevels), 10, price), Snap(1, 0, price),
      Snap(CumQty(MaxLevels) + QtyStep, 12, price), Snap(CumQty(2), 11, price) }

\* open orders beyond those of AdoptLists: more reduce-only orders than
\* max_levels, and one reduce-only order among entry orders
ReconcileLists ==
    AdoptLists
    \cup { [ orders |-> [ i \in 1..(MaxLevels + 1) |-> Order(TRUE, 1, 12, 8 + i) ],
             trades |-> None ],
           [ orders |-> << Order(FALSE, 1, 9, 5), Order(TRUE, 1, 12, 9), Order(FALSE, 1, 8, 6) >>,
             trades |-> None ],
           [ orders |-> << >>,
             trades |-> Some(<< Trade(TRUE, LevelQty(1), 12, 1, 7),
                                Trade(TRUE, LevelQty(2), 10, 2, 8) >>) ] }

ReconcileSnapshots ==
    UNION { { [ price |-> price, pos |-> pos, orders |-> al.orders, trades |-> al.trades ] :
                pos \in ReconcilePositions(price), al \in ReconcileLists } :
            price \in Prices }

Reconciled(E, snap, t) ==
    reconcile_position(E, snap.price, snap.pos, snap.orders, snap.trades, t)

\* the call, and what a second call on the same snapshot would leave, made at
\* once (again) or after the clock has moved on (later)
ReconcileObs(E0, snap, E1) ==
    [ op |-> "reconcile", snap |-> snap, before |-> E0.state, fileBefore |-> E0.saved,
      calls |-> E1.calls, saves |-> E1.saves, queries |-> E1.queries,
      again |-> Reconciled(Ctx(E1.state, E1.saved, FALSE, 0, 0), snap, now).state,
      later |-> Reconciled(Ctx(E1.state, E1.saved, FALSE, 0, 0), snap, now + 1).state ]

InitReconcile ==
    /\ cfg = [ cooldown_minutes |-> 0 ]
    /\ pc = "loop"
    /\ now = 1
    /\ state \in LocalStates
    /\ bb = NewBB
    /\ drain = FALSE
    /\ session = [ grids |-> 0, gain |-> 0 ]
    /\ file = IF state = EmptyState THEN NoFile ELSE FileOf(to_dict(state))
    /\ obs = Idle("init")
    /\ twin = NoTwin

\* strat.reconcile_position(price, pos, open_orders=open_orders)
Reconcile ==
    /\ \E snap \in ReconcileSnapshots :
          LET E0 == Ctx(state, file, FALSE, 0, 0)
              E1 == Reconciled(E0, snap, now)
          IN  /\ state' = E1.state
              /\ file' = E1.saved
              /\ obs' = ReconcileObs(E0, snap, E1)
    /\ UNCHANGED << cfg, pc, now, bb, drain, session, twin >>

\* the engine's other operations leave another state
Operate ==
    /\ obs.op # "operate"
    /\ \E S \in LocalStates \ { state } :
          /\ state' = S
          /\ file' = FileOf(to_dict(S))
    /\ obs' = Idle("operate")
    /\ UNCHANGED << cfg, pc, now, bb, drain, session, twin >>

\* time passes
Later ==
    /\ now < MaxTime
    /\ now' = now + 1
    /\ obs' = Idle("advance")
    /\ UNCHANGED << cfg, pc, state, bb, drain, session, file, twin >>

NextReconcile == Reconcile \/ Operate \/ Later

SpecReconcile == InitReconcile /\ [][NextReconcile]_vars

\* ------------------------------------------- a basket built, lost and rebuilt
\* A basket is opened and extended while the exchange fills every order for
\* the quantity requested (twin.amt is the position that results); then the
\* local state is lost and reconcile_position rebuilds it from that position.

RoundTripPrices == { 8, 10, 12 }

InitRoundTrip ==
    /\ cfg = [ cooldown_minutes |-> 0 ]
    /\ pc = "loop"
    /\ now = 1
    /\ state = EmptyState
    /\ bb = seed_indicator(NewBB, << 10, 12, 11 >>)
    /\ drain = FALSE
    /\ session = [ grids |-> 0, gain |-> 0 ]
    /\ file = NoFile
    /\ obs = Idle("init")
    /\ twin = [ amt |-> 0 ]

\* _start_position(price, direction), its order filled as requested
RoundTripOpen ==
    /\ state.direction = "none"
    /\ \E direction \in { "long", "short" }, price \in RoundTripPrices :
          LET E == Opened(direction, price)
          IN  /\ state' = E.state
              /\ file' = E.saved
              /\ twin' = [ amt |-> Filled(0, E.calls) ]
              /\ obs' = [Idle("open") EXCEPT !.calls = E.calls]
    /\ UNCHANGED << cfg, pc, now, bb, drain, session >>

\* strat.on_price(price) on the open basket, its orders filled as requested
\* at the mark price
RoundTripTick ==
    /\ state.direction # "none"
    /\ obs.op # "recover"
    /\ \E mark \in ExtendMarks :
          LET pos == Snap(twin.amt, Val(state.last_entry_price), mark)
              in == [BaseIn(mark, TRUE, pos) EXCEPT
                       !.orders = OrderLists(state, pos, mark)[1]]
              r == Run(Ctx(state, file, drain, session.grids, session.gain), bb, in).r
          IN  /\ Commit("tick", in, r)
              /\ twin' = [ amt |-> Filled(twin.amt, r.E.calls) ]
    /\ UNCHANGED << cfg, pc, now >>

\* the local state is lost; reconcile_position(price, pos, open_orders) with
\* the position built so far and the take-profit order or no order
RoundTripRecover ==
    /\ state.direction # "none"
    /\ obs.op # "recover"
    /\ \E price \in Prices, withTp \in BOOLEAN :
          LET pos == Snap(twin.amt, Val(state.last_entry_price), price)
              snap == [ price |-> price, pos |-> pos,
                        orders |-> IF withTp THEN OrderLists(state, pos, price)[1] ELSE << >>,
                        trades |-> None ]
              E1 == Reconciled(Ctx(EmptyState, NoFile, FALSE, 0, 0), snap, now)
          IN  /\ state' = E1.state
              /\ file' = E1.saved
              /\ obs' = [Idle("recover") EXCEPT !.pos = pos, !.orders = snap.orders]
              /\ twin' = [ amt |-> twin.amt, k |-> state.levels_filled,
                           direction |-> state.direction ]
    /\ UNCHANGED << cfg, pc, now, bb, drain, session >>

\* the position is closed and the state is empty again
RoundTripClose ==
    /\ obs.op = "recover"
    /\ state' = EmptyState
    /\ file' = NoFile
    /\ twin' = [ amt |-> 0 ]
    /\ obs' = Idle("operate")
    /\ UNCHANGED << cfg, pc, now, bb, drain, session >>

NextRoundTrip == RoundTripOpen \/ RoundTripTick \/ RoundTripRecover \/ RoundTripClose

SpecRoundTrip == InitRoundTrip /\ [][NextRoundTrip]_vars

\* ------------------------------------------------- a damaged state file
\* Processes start on whatever the state path holds: nothing, a file written
\* by save(), or a file damaged while no process ran (unreadable, garbled, a
\* JSON document of another shape or with fields of other types).

Unreadable(f, err) == [ exists |-> TRUE, ok |-> FALSE, data |-> f.data, err |-> err ]

Damaged(f) ==
    { Unreadable(f, "OSError"), Unreadable(f, "JSONDecodeError"),
      [f EXCEPT !.data = JArr(<< >>)],
      [f EXCEPT !.data = JNull],
      [f EXCEPT !.data.levels_filled = JNull],
      [f EXCEPT !.data.basket_id = JStr("x")],
      [f EXCEPT !.data.max_volume = JArr(<< >>)],
      [f EXCEPT !.data.worst_drawdown = JNull],
      [f EXCEPT !.data.entry_order_ids = JNull],
      [f EXCEPT !.data.tp_order_ids = JArr(<< JStr("x") >>)] }

\* the file is one that save() wrote
Intact(f) == f.exists /\ f.ok /\ \E S \in StoreStates : f = FileOf(to_dict(S))

InitLoad ==
    /\ cfg = [ cooldown_minutes |-> 0 ]
    /\ pc = "down"
    /\ now = 1
    /\ state = EmptyState
    /\ bb = NewBB
    /\ drain = FALSE
    /\ session = [ grids |-> 0, gain |-> 0 ]
    /\ file = NoFile
    /\ obs = Idle("init")
    /\ twin = NoTwin

\* GridBollingerStrategy.__init__, line 29: self.state = self.state_store.load();
\* an exception out of load() ends main() before the loop
Construct ==
    /\ pc = "down"
    /\ pc' = IF load_outcome(file).exc = "none" THEN "loop" ELSE "aborted"
    /\ state' = load_outcome(file).state
    /\ obs' = [ op |-> "load", got |-> load_outcome(file).state,
                exc |-> load_outcome(file).exc ]
    /\ UNCHANGED << cfg, now, bb, drain, session, file, twin >>

\* the running engine saves a GridState
SaveState ==
    /\ pc = "loop"
    /\ \E S \in StoreStates \ { state } :
          /\ state' = S
          /\ file' = FileOf(to_dict(S))
    /\ obs' = Idle("save")
    /\ UNCHANGED << cfg, pc, now, bb, drain, session, twin >>

\* the process ends
Exit ==
    /\ pc = "loop"
    /\ pc' = "down"
    /\ state' = EmptyState
    /\ obs' = Idle("stop")
    /\ UNCHANGED << cfg, now, bb, drain, session, file, twin >>

\* while no process runs, the file is damaged
Damage ==
    /\ pc = "down"
    /\ Intact(file)
    /\ file' \in Damaged(file)
    /\ obs' = Idle("damage")
    /\ UNCHANGED << cfg, pc, now, state, bb, drain, session, twin >>

NextLoad == Construct \/ SaveState \/ Exit \/ Damage

SpecLoad == InitLoad /\ [][NextLoad]_vars

\* ------------------------------------------------------------------- claims
\* The GridState an operation starts from: a starting process loads the file.
Pre == IF pc = "down" THEN load(file) ELSE state

IsCall(c, op, via) == c.op = op /\ c.via = via
\* the positions of the call log that hold such a request
CallsOf(o, op, via) == { i \in 1..Len(o.calls) : IsCall(o.calls[i], op, via) }

\* C1: in every reachable GridState direction is none iff levels_filled is 0
\* iff next_entry_price is null.
C1_DirectionLevelsNext ==
    /\ (state.direction = "none") <=> (state.levels_filled = 0)
    /\ (state.levels_filled = 0) <=> IsNone(state.next_entry_price)

\* sum and sum of squares of a window, recomputed from its samples
RECURSIVE SumOf(_)
SumOf(w) == IF w = << >> THEN 0 ELSE Head(w) + SumOf(Tail(w))
RECURSIVE SumSqOf(_)
SumSqOf(w) == IF w = << >> THEN 0 ELSE Head(w) * Head(w) + SumSqOf(Tail(w))

\* The last sample of a full window w lies strictly above (sign = 1) or below
\* (sign = -1) the band mean +/- StdDev * sigma of that window: with
\* d = Period * price - sum, that is sign * d > 0 and
\* d^2 > StdDev^2 * (Period * sumsq - sum^2).
StrictlyOutside(w, sign) ==
    LET d == Period * w[Len(w)] - SumOf(w)
    IN  /\ Len(w) = Period
        /\ sign * d > 0
        /\ d * d > StdDev * StdDev * (Period * SumSqOf(w) - SumOf(w) * SumOf(w))

\* C2: a tick sends the opening market order only from a flat state, with a
\* full window, and only when the tick price (the window's last sample) is
\* strictly outside the band of that window: SELL above the upper band, BUY
\* below the lower band; the basket it opens is short resp. long at level 1,
\* and a tick whose price is on or inside the bands sends no opening order and
\* leaves a flat state flat.
C2_OpensOnlyOnStrictBreach ==
    [][ obs'.op = "tick" =>
          /\ \A i \in CallsOf(obs', "market", "start") :
                LET c == obs'.calls[i]
                IN  /\ c.dir = "none"
                    /\ c.side = "SELL" => StrictlyOutside(bb'.window, 1)
                    /\ c.side = "BUY" => StrictlyOutside(bb'.window, -1)
                    /\ obs'.exc = "none" =>
                          /\ state'.levels_filled = 1
                          /\ state'.direction = IF c.side = "SELL" THEN "short" ELSE "long"
          /\ (state.direction = "none" /\ state'.direction # "none")
                => CallsOf(obs', "market", "start") # {}
          /\ (~StrictlyOutside(bb'.window, 1) /\ ~StrictlyOutside(bb'.window, -1))
                => CallsOf(obs', "market", "start") = {}
      ]_vars

\* C2's case: a tick on a flat state opened a short basket on a breach.
C2_Witness ==
    /\ obs.op = "tick"
    /\ CallsOf(obs, "market", "start") # {}
    /\ StrictlyOutside(bb.window, 1)
    /\ state.direction = "short"
    /\ state.levels_filled = 1

\* C3: a tick sends an extension order only for an ACTIVE basket below
\* max_levels whose next_entry_price the mark price has reached (at or above
\* for short, at or below for long); levels_filled of a basket rises in a tick
\* only with such an order, so on the favourable side of next_entry_price or
\* at max_levels no entry order is sent and levels_filled does not rise.
C3_ExtendsOnlyOnAdverseCross ==
    [][ obs'.op = "tick" =>
          /\ \A i \in CallsOf(obs', "market", "extend") :
                LET c == obs'.calls[i]
                IN  /\ c.dir # "none"
                    /\ c.lvl >= 1 /\ c.lvl < MaxLevels
                    /\ ~IsNone(c.nxt)
                    /\ c.dir = "short" => obs'.pos.mark >= Val(c.nxt)
                    /\ c.dir = "long" => obs'.pos.mark <= Val(c.nxt)
          /\ (state.direction # "none" /\ state'.levels_filled > state.levels_filled)
                => CallsOf(obs', "market", "extend") # {}
      ]_vars

\* C3's case: a tick extended a basket that was at level 1.
C3_Witness ==
    /\ obs.op = "tick"
    /\ CallsOf(obs, "market", "extend") # {}
    /\ obs.exc = "none"
    /\ state.levels_filled = 2

\* the operation just made was given a position snapshot of size zero
ZeroSnapshot(o) == o.op \in { "tick", "start" } /\ o.posOk /\ o.pos.amt = 0

\* C4: every step that takes the GridState from ACTIVE to direction none
\* because the exchange reported a zero position emits exactly one
\* BasketSummary, to the close callback and to the ledger, whichever operation
\* (tick or startup reconciliation) makes it.
C4_CloseEmitsOneSummary ==
    [][ (ZeroSnapshot(obs') /\ Pre.direction # "none")
          => /\ Len(obs'.emitted) = 1
             /\ Len(obs'.ledger) = 1
             /\ obs'.emitted[1].basket_id = Pre.basket_id
      ]_vars

\* C5: a tick that obtains a position snapshot of size zero while the
\* GridState has a direction resets the state before it returns, whatever the
\* indicator, the drain flag and the cooldown are: the basket is closed, and
\* unless the same tick opens the next basket the state is the empty value
\* apart from cooldown_until_ts.
C5_ZeroSnapshotResets ==
    [][ (obs'.op = "tick" /\ obs'.posOk /\ obs'.pos.amt = 0 /\ state.direction # "none")
          => /\ obs'.resets = 1
             /\ Len(obs'.emitted) = 1
             /\ CallsOf(obs', "market", "start") = {}
                   => [state' EXCEPT !.cooldown_until_ts = None] = EmptyState
      ]_vars

\* C5's case: a tick closed a basket while the indicator was not ready and the
\* drain flag was set.
C5_Witness ==
    /\ obs.op = "tick"
    /\ obs.resets = 1
    /\ ~bb_ready(bb)
    /\ drain
    /\ state.direction = "none"

\* the reduce-only orders of the snapshot's open orders
RoOf(o) == SelectSeq(o.orders, LAMBDA x : x.reduceOnly)

\* the snapshot's open orders hold exactly one reduce-only order, within half
\* a quantity step of the position and one price tick of the target
Aligned(o, target) ==
    /\ Len(RoOf(o)) = 1
    /\ 2 * Abs(RoOf(o)[1].origQty - Abs(o.pos.amt)) <= QtyStep
    /\ Abs(RoOf(o)[1].price - target) <= PriceTick

\* the take-profit target of a snapshot for a basket of direction dir
TargetOf(o, dir) ==
    _tp_price(IF o.pos.entry > 0 THEN o.pos.entry ELSE o.pos.mark, Abs(o.pos.amt),
              IF dir = "none" THEN "long" ELSE dir)

\* C6: on a tick with a non-zero position, take-profit management sends
\* nothing when the open orders hold exactly one reduce-only order within half
\* a quantity step of the position size and one price tick of the target, and
\* otherwise sends cancel-all followed by exactly one TP order for the whole
\* position at the target price.
C6_TpManagement ==
    [][ (obs'.op = "tick" /\ obs'.posOk /\ obs'.pos.amt # 0) =>
          LET target == TargetOf(obs', state.direction)
              ens == { i \in 1..Len(obs'.calls) : obs'.calls[i].via = "ensure" }
          IN  IF Aligned(obs', target) THEN ens = {}
              ELSE /\ ens = { 1, 2 }
                   /\ obs'.calls[1].op = "cancel_all"
                   /\ obs'.calls[2].op = "tp"
                   /\ obs'.calls[2].qty = Abs(obs'.pos.amt)
                   /\ obs'.calls[2].price = target
                   /\ obs'.calls[2].side = IF state.direction = "short" THEN "BUY" ELSE "SELL"
      ]_vars

\* C6's cases: a tick left an order at the edge of both tolerances alone ...
C6_Witness ==
    /\ obs.op = "tick" /\ obs.posOk /\ obs.pos.amt # 0
    /\ state.direction # "none"
    /\ Len(RoOf(obs)) = 1
    /\ 2 * Abs(RoOf(obs)[1].origQty - Abs(obs.pos.amt)) = QtyStep
    /\ CallsOf(obs, "tp", "ensure") = {}

\* C7: every TP order the engine places is for the whole current position, so
\* after a tick that extended a basket the reduce-only orders that are open
\* (those of the snapshot unless the tick cancelled them, and those the tick
\* placed after its last cancel-all) number exactly one, and the TP orders the
\* tick placed are for the basket's whole quantity.
C7_OneTpForWholePosition ==
    (/\ obs.op = "tick" /\ obs.exc = "none"
     /\ CallsOf(obs, "market", "extend") # {})
      => LET cancels == CallsOf(obs, "cancel_all", "ensure")
             live == { i \in 1..Len(obs.calls) :
                         /\ obs.calls[i].op = "tp"
                         /\ \A j \in cancels : j < i }
             kept == IF cancels = {} /\ Len(RoOf(obs)) > 0 THEN Len(RoOf(obs)) ELSE 0
         IN  /\ Cardinality(live) + kept = 1
             /\ \A i \in live : obs.calls[i].qty = CumQty(state.levels_filled)

\* the opening market orders of an operation
Opens(o) == CallsOf(o, "market", "start")

\* C8: with a cooldown configured, a close at time t sets cooldown_until_ts to
\* t + c, and no operation sends an opening order while the clock is before
\* the cooldown_until_ts of the state it starts from, also after a restart.
C8_NoOpenInCooldown ==
    [][ /\ (obs'.resets > 0 /\ cfg.cooldown_minutes > 0 /\ Opens(obs') = {})
            => state'.cooldown_until_ts = Some(now + cfg.cooldown_minutes)
        /\ (Opens(obs') # {} /\ obs'.resets = 0)
            => ~(/\ ~IsNone(Pre.cooldown_until_ts)
                 /\ now < Val(Pre.cooldown_until_ts))
      ]_vars

\* C9: while the drain flag is set (for a starting process: set by --drain or
\* the configuration) no operation sends an opening market order.
C9_DrainSuppressesEntries ==
    [][ (IF obs'.op = "start" THEN drain' ELSE drain /\ obs'.op = "tick")
          => Opens(obs') = {}
      ]_vars

\* C10: two engines that start in the same ACTIVE state and get the same prices
\* and exchange answers, one with the drain flag set and one without, have the
\* same GridState, send the same orders and emit the same BasketSummary up to
\* and including the close of that basket (on the closing tick: the same state
\* right after the reset, the same orders before the market order that opens
\* the next basket).
BeforeNextBasket(calls) ==
    LET opening == { i \in 1..Len(calls) : calls[i].via = "start" }
    IN  IF opening = {} THEN calls
        ELSE SubSeq(calls, 1, (CHOOSE i \in opening : \A j \in opening : i <= j) - 1)

C10_DrainNoEffectOnActive ==
    obs.op = "tick" =>
        /\ twin.midA = twin.midB
        /\ obs.emitted = twin.obs.emitted
        /\ obs.ledger = twin.obs.ledger
        /\ BeforeNextBasket(obs.calls) = BeforeNextBasket(twin.obs.calls)
        /\ ~twin.closed => /\ state = twin.state
                           /\ file = twin.file
                           /\ obs.calls = twin.obs.calls

\* the basket was extended and then closed in both engines; the engine without
\* drain has opened the next basket on the closing tick, the one with drain not
C10_Witness ==
    /\ obs.op = "tick"
    /\ twin.closed
    /\ twin.drain /\ ~drain
    /\ Len(twin.obs.emitted) = 1
    /\ twin.obs.emitted[1].levels = 2
    /\ state.direction # "none"
    /\ twin.state.direction = "none"
\* the realized PnL of the summaries whose pnl is known, added up
RECURSIVE KnownPnl(_)
KnownPnl(summaries) ==
    IF summaries = << >> THEN 0
    ELSE (IF IsNone(Head(summaries).pnl) THEN 0 ELSE Val(Head(summaries).pnl))
         + KnownPnl(Tail(summaries))

\* the session counters have reached a configured limit
LimitReached(grids, gain) ==
    \/ MaxGrids > 0 /\ grids >= MaxGrids
    \/ MaxGain > 0 /\ gain >= MaxGain

\* C11: over the ticks of a run, the baskets closed by the tick loop and their
\* known PnL are counted; once the count has reached max_grids or the PnL
\* max_gain_usd the drain flag is set after the tick that closed the basket,
\* a set flag stays set on every later tick, and a tick that ends with the
\* flag set has sent no opening order and opened no basket, the tick of the
\* limit-reaching close included.
C11_SessionLimitsEngageDrain ==
    [][ (pc = "loop" /\ obs'.op = "tick") =>
          /\ session'.grids = session.grids + Len(obs'.emitted)
          /\ session'.gain = session.gain + KnownPnl(obs'.emitted)
          /\ LimitReached(session.grids + Len(obs'.emitted),
                          session.gain + KnownPnl(obs'.emitted)) => drain'
          /\ drain => drain'
          /\ drain' => /\ Opens(obs') = {}
                       /\ state.direction = "none" => state'.direction = "none"
                       /\ obs'.resets > 0 => state'.direction = "none"
      ]_vars

\* C11's case: the tick that closed the second basket of the run (PnL unknown,
\* so only the count reached its limit) set the drain flag and opened nothing,
\* although its price was strictly above the upper band and no cooldown ran.
C11_Witness ==
    /\ obs.op = "tick"
    /\ obs.resets = 1
    /\ session.grids = MaxGrids
    /\ session.gain < MaxGain
    /\ drain
    /\ cfg.cooldown_minutes = 0
    /\ StrictlyOutside(bb.window, 1)
    /\ state.direction = "none"
\* C12: after every start (reconcile_position, force_seed) and every tick
\* (on_price) that returned normally, the state file holds the in-memory
\* GridState: load() of it gives back that state.
C12_SavedEqualsMemory ==
    (obs.op \in { "start", "tick" } /\ obs.exc = "none") => load(file) = state
\* C13: whatever load() returns -- at the start of the next process after the
\* saving one was killed at any step of save(), or in a reader running while a
\* save is in progress -- it has read a complete text, and the GridState is
\* the one of the last completed save or the one being saved when the file
\* was opened.
C13_SaveIsAtomic ==
    obs.op = "load" => /\ ~obs.torn
                       /\ obs.got \in { obs.old, obs.new }

\* C13's case: the process was killed between writing the temporary file and
\* the rename; the next start loaded the previous state, complete.
C13_Witness ==
    /\ obs.op = "load"
    /\ pc = "loop"
    /\ twin.tmp.exists /\ twin.tmp.ok
    /\ obs.old # obs.new
    /\ obs.old # EmptyState
    /\ obs.got = obs.old
\* C14: for every GridState the engine reaches, load() of the file that
\* save() writes for it gives back that GridState, equal in all twelve fields.
C14_SaveLoadRoundTrip ==
    /\ load(FileOf(to_dict(state))) = state
    /\ \A k \in DOMAIN state : load(FileOf(to_dict(state)))[k] = state[k]
    /\ Cardinality(DOMAIN state) = 12

\* C14's case: an ACTIVE state with null and non-null optionals and both
\* order-id lists filled has been saved, and the file gives it back.
C14_Witness ==
    /\ state.direction = "short"
    /\ state.entry_order_ids # << >>
    /\ state.tp_order_ids # << >>
    /\ IsNone(state.cooldown_until_ts)
    /\ ~IsNone(state.basket_start_balance)
    /\ file.exists
    /\ load(file) = state
\* C15: load() lets no exception through, so the process reaches its loop; on
\* a state path that is missing, unreadable or holds anything but a file that
\* save() wrote without damage, it returns the empty GridState.
C15_LoadFailsSoft ==
    obs.op = "load" =>
        /\ obs.exc = "none"
        /\ pc = "loop"
        /\ ~Intact(file) => obs.got = EmptyState /\ state = EmptyState

\* C15's case: a process started on a state file in which an ACTIVE state had
\* been saved and which was damaged afterwards.
C15_Witness ==
    /\ obs.op = "load"
    /\ file.exists
    /\ ~Intact(file)
    /\ file.ok
    /\ obs.got = EmptyState
\* C16: for every local GridState and every exchange snapshot, a second
\* reconcile_position on the same snapshot leaves the GridState the first one
\* left, whether it follows at once or after the clock has moved on.
C16_ReconcileIdempotent ==
    obs.op = "reconcile" => obs.again = state /\ obs.later = state

\* C16's case: the first call adopted a position into a flat state.
C16_Witness ==
    /\ obs.op = "reconcile"
    /\ obs.before.direction = "none"
    /\ state.direction = "short"
    /\ state.levels_filled = MaxLevels
    /\ obs.again = state

\* C17: when the position of the snapshot is not zero and the local state has
\* a direction, reconcile_position leaves every field of the GridState as it
\* was, writes nothing to the state store and sends nothing to the exchange
\* (no order, no cancel, no trade-history request).
C17_ReconcileTrustsLocal ==
    (obs.op = "reconcile" /\ obs.snap.pos.amt # 0 /\ obs.before.direction # "none") =>
        /\ state = obs.before
        /\ file = obs.fileBefore
        /\ obs.saves = 0
        /\ obs.calls = << >>
        /\ obs.queries = 0

\* C17's case: a long level-1 state without entry ids met a short position of
\* another size, with reduce-only orders open, and was left alone.
C17_Witness ==
    /\ obs.op = "reconcile"
    /\ obs.before.direction = "long"
    /\ obs.before.entry_order_ids = << >>
    /\ obs.snap.pos.amt < 0
    /\ obs.snap.orders # << >>
    /\ state = obs.before
\* the market order got no fill that anything confirms: executedQty is 0 and
\* the position check fails or shows the position where it was
NoFill(m) == m.placeOk /\ m.executedQty = 0 /\ (~m.postOk \/ m.postAmt = m.preAmt)

\* C18: when a tick's market order reports executedQty 0 and the position
\* check does not confirm a fill, the order is the last call of the tick, the
\* tick ends with the API error, and direction, levels_filled,
\* last_entry_price, basket_id and entry_order_ids are what they were when
\* _start_position or _extend_grid_if_needed was called.
C18_FillFailureAbortsDecision ==
    (obs.op = "tick" /\ HasCall(obs, "market") /\ NoFill(obs.in.mkts[1])) =>
        LET st == Val(obs.mid)
        IN  /\ obs.calls[Len(obs.calls)].op = "market"
            /\ obs.exc = "api"
            /\ state.direction = st.direction
            /\ state.levels_filled = st.levels_filled
            /\ state.last_entry_price = st.last_entry_price
            /\ state.basket_id = st.basket_id
            /\ state.entry_order_ids = st.entry_order_ids

\* C18's case: an extension of a level-1 basket whose order reported no fill
\* while the position check answered and showed no change.
C18_Witness ==
    /\ obs.op = "tick"
    /\ obs.calls # << >>
    /\ obs.calls[Len(obs.calls)].via = "extend"
    /\ NoFill(obs.in.mkts[1])
    /\ obs.in.mkts[1].postOk
    /\ obs.exc = "api"
    /\ state.direction # "none"
    /\ state.levels_filled = 1

\* the i-th call of the tick was answered with an API error
CallFailed(o, i) ==
    \/ o.calls[i].op = "market" /\ (~o.in.mkts[1].placeOk \/ NoFill(o.in.mkts[1]))
    \/ o.calls[i].via = "place_tp" /\ ~o.in.tps[1].ok

\* C19: after a call to the exchange fails in a tick, the tick places and
\* cancels no order: none at all when get_open_orders or get_position_info
\* fails, none after get_account fails at a basket close, none after a failed
\* order; and the loop goes on.
C19_ApiErrorAbandonsTick ==
    obs.op = "tick" =>
        /\ (~obs.in.ordersOk \/ ~obs.in.posOk) => obs.calls = << >>
        /\ (obs.resets > 0 /\ IsNone(obs.in.wallet)) => obs.calls = << >>
        /\ \A i \in 1..Len(obs.calls) : CallFailed(obs, i) => i = Len(obs.calls)
        /\ pc = "loop"

\* C20: when a tick closes a basket, whatever the close-callback and the
\* ledger append do: one summary is produced, the ledger receives it whenever
\* the append itself succeeds (also after a failed callback), the GridState
\* left to the entry decision is empty with the cooldown armed when one is
\* configured, and an exception leaves the tick only from an order placed
\* afterwards.
C20_CallbackFailuresKeepReset ==
    (obs.op = "tick" /\ obs.resets > 0) =>
        /\ obs.resets = 1
        /\ Len(obs.emitted) = 1
        /\ obs.ledger = IF obs.in.ledgerOk THEN obs.emitted ELSE << >>
        /\ obs.mid = Some([EmptyState EXCEPT !.cooldown_until_ts =
                               IF cfg.cooldown_minutes > 0
                               THEN Some(now + cfg.cooldown_minutes) ELSE None])
        /\ obs.exc # "none" => obs.calls # << >>

\* C20's case: the callback and the ledger append both raised at the close of
\* a basket with a cooldown configured.
C20_Witness ==
    /\ obs.op = "tick"
    /\ obs.resets = 1
    /\ ~obs.in.cbOk
    /\ ~obs.in.ledgerOk
    /\ cfg.cooldown_minutes > 0
    /\ state = [EmptyState EXCEPT !.cooldown_until_ts = Some(now + cfg.cooldown_minutes)]
    /\ obs.exc = "none"
\* C21: the summary of a closed basket has pnl = wallet balance minus
\* basket_start_balance when get_account answers and the start balance is
\* known, and no pnl otherwise; its direction, levels, max volume and worst
\* drawdown are those of the GridState before the reset.
C21_SummaryOfClosedBasket ==
    [][ (obs'.op = "tick" /\ obs'.resets > 0) =>
          LET summary == obs'.emitted[1]
              wallet == obs'.in.wallet
          IN  /\ summary.pnl =
                    IF ~IsNone(wallet) /\ ~IsNone(state.basket_start_balance)
                    THEN Some(Val(wallet) - Val(state.basket_start_balance))
                    ELSE None
              /\ summary.direction = state.direction
              /\ summary.levels = state.levels_filled
              /\ summary.max_volume_eth = state.max_volume
              /\ summary.worst_drawdown = state.worst_drawdown ]_vars

\* C21's case: a level-2 basket opened at balance 100 closed at balance 105.
C21_Witness ==
    /\ obs.op = "tick"
    /\ obs.resets = 1
    /\ obs.in.wallet = Some(105)
    /\ obs.emitted[1].pnl = Some(5)
    /\ obs.emitted[1].levels = 2
    /\ state.direction = "none"
\* C22: the ledger never holds more rows than positions were closed: no
\* closed basket is appended a second time, also across a stop and a restart
\* whose reconciliation may fail.
C22_OneRowPerClosedBasket ==
    Len(twin.rows) <= twin.closed
\* C23: levels_filled never exceeds max_levels in a state reached from the
\* empty state by startup reconciliation, force-seeding, opening and
\* extending.
C23_LevelsWithinMax ==
    state.levels_filled <= MaxLevels

\* C23's case: a short basket at max_levels met a price at or beyond one
\* spacing above its last fill and placed no further entry.
C23_Witness ==
    /\ obs.op = "tick"
    /\ state.direction = "short"
    /\ state.levels_filled = MaxLevels
    /\ obs.pos.amt # 0
    /\ obs.pos.mark >= Val(state.last_entry_price) + GridSpacing
    /\ \A i \in 1..Len(obs.calls) : obs.calls[i].op # "market"
\* C24: after a call that opened a basket or extended one (its market order
\* filled and the take-profit was placed), next_entry_price is one spacing
\* from last_entry_price, above for a short and below for a long.
C24_NextEntryFromLastFill ==
    (obs.op \in { "start", "tick" } /\ obs.calls # << >>
       /\ obs.calls[Len(obs.calls)].via = "place_tp") =>
        /\ state.direction # "none"
        /\ ~IsNone(state.last_entry_price)
        /\ state.next_entry_price =
              Some(IF state.direction = "short"
                   THEN Val(state.last_entry_price) + GridSpacing
                   ELSE Val(state.last_entry_price) - GridSpacing)

\* C24's case: a short basket extended at price 12 with fills at 10; the
\* next entry is 12, one spacing from the last fill and not from the level's
\* target.
C24_Witness ==
    /\ obs.op = "tick"
    /\ obs.calls # << >>
    /\ obs.calls[Len(obs.calls)].via = "place_tp"
    /\ \E i \in 1..Len(obs.calls) : obs.calls[i].via = "extend"
    /\ state.direction = "short"
    /\ state.levels_filled > 1
    /\ state.last_entry_price = Some(10)
    /\ state.next_entry_price = Some(12)
\* clock readings around the change of the hour and of the day
IdTimes == { 1, 2, 59, 60, 61, 1439, 1440, 1441 }

\* C25: when a process opens a basket after another one, the id of the later
\* basket is not smaller than the id of the earlier one; and _new_basket_id
\* does not decrease when its time does not, across the hour and the day.
C25_BasketIdsNonDecreasing ==
    [][ /\ \A t1 \in IdTimes, t2 \in IdTimes :
             t1 <= t2 => /\ _new_basket_id(Some(t1), t2) <= _new_basket_id(Some(t2), t2)
                         /\ _new_basket_id(None, t1) <= _new_basket_id(None, t2)
        /\ (twin.last # 0 /\ twin'.last # 0) => twin'.last >= twin.last ]_vars

\* C25's case: the process opened a basket, closed it, and opened the next
\* one a minute later from an order without a fill time.
C25_Witness ==
    /\ obs.op = "tick"
    /\ Len(twin.rows) = 1
    /\ twin.rows[1].basket_id # 0
    /\ twin.last > twin.rows[1].basket_id
    /\ state.basket_id = twin.last
    /\ state.basket_open_ts = Some(now)
    /\ now = 2
\* C26: in every GridState the engine holds or has saved, basket_id = 0 only
\* while basket_open_ts is null.
C26_NoOpenTimeWithoutId ==
    /\ state.basket_id = 0 => IsNone(state.basket_open_ts)
    /\ load(file).basket_id = 0 => IsNone(load(file).basket_open_ts)

\* C26's case: a tick opened a basket; it has an opening time and an id, in
\* memory and in the file.
C26_Witness ==
    /\ obs.op = "tick"
    /\ obs.calls # << >>
    /\ obs.calls[1].via = "start"
    /\ state.basket_open_ts = Some(now)
    /\ state.basket_id = _new_basket_id(Some(now), now)
    /\ load(file) = state
\* the integer part of math.sqrt(n)
ISqrt(n) == CHOOSE r \in 0..n : r * r <= n /\ n < (r + 1) * (r + 1)

\* lower, mean and upper of a bands() result, each times the period, with
\* the square root cut to its integer part
LowerOf(bands) == bands.sum - ISqrt(bands.kvar)
MeanOf(bands) == bands.sum
UpperOf(bands) == bands.sum + ISqrt(bands.kvar)

\* C27: bands() is null while fewer than `period` samples have been added;
\* from the period-th sample on it is (lower, mean, upper) with
\* lower <= mean <= upper, computed from the sums of exactly the samples in
\* the window; the window never holds more than `period` samples.
C27_BandsOrdered ==
    /\ Len(bb.window) <= Period
    /\ Len(bb.window) = Min(twin.added, Period)
    /\ twin.added < Period => bb_bands(bb) = None
    /\ twin.added >= Period =>
          /\ bb_bands(bb) # None
          /\ LET bands == Val(bb_bands(bb))
             IN  /\ bands.sum = SumOf(bb.window)
                 /\ bands.kvar = StdDev * StdDev
                                    * (Period * SumSqOf(bb.window)
                                         - SumOf(bb.window) * SumOf(bb.window))
                 /\ bands.kvar >= 0
                 /\ LowerOf(bands) <= MeanOf(bands)
                 /\ MeanOf(bands) <= UpperOf(bands)

\* C27's case: more samples than the period were added, the window dropped
\* the oldest ones and the bands are apart.
C27_Witness ==
    /\ twin.added = MaxAdds
    /\ Len(bb.window) = Period
    /\ bb_bands(bb) # None
    /\ LowerOf(Val(bb_bands(bb))) < MeanOf(Val(bb_bands(bb)))
    /\ MeanOf(Val(bb_bands(bb))) < UpperOf(Val(bb_bands(bb)))
\* C28: for every level, multiplier >= 1 and step > 0, the quantity of a
\* level is not below the quantity of the level before and is a multiple of
\* step, the levels that return base_qty included.
C28_LevelQtyMonotoneOnStep ==
    /\ twin.qty >= twin.prev
    /\ twin.qty % twin.shape.step = 0

\* multiply by the multiplier and round up to the step, n times
RECURSIVE Scaled(_, _, _)
Scaled(qty, n, shape) ==
    IF n = 0 THEN qty
    ELSE Scaled(round_up(qty * shape.mnum, shape.mden, shape.step), n - 1, shape)

\* C29: the quantity of level L is base_qty scaled once for each multiple of
\* repeat_every strictly below L; with base_qty 1, repeat_every 2, multiplier
\* 1.5 and step 0.1 the levels 1..5 give 1, 1, 1.5, 1.5, 2.3.
C29_LevelQtyReference ==
    /\ twin.qty = Scaled(twin.shape.base_qty, (twin.level - 1) \div twin.shape.repeat_every,
                         twin.shape)
    /\ [ L \in 1..5 |-> level_qty(L, 10, 2, 3, 2, 1) ] = << 10, 10, 15, 15, 23 >>

\* C29's case: level 5 of the shape base_qty 1, repeat_every 2, multiplier
\* 1.5, step 0.1 is 2.3, after level 4 at 1.5.
C29_Witness ==
    /\ twin.shape = [ base_qty |-> 10, repeat_every |-> 2, mnum |-> 3, mden |-> 2,
                      step |-> 1 ]
    /\ twin.level = 5
    /\ twin.prev = 15
    /\ twin.qty = 23
\* C30: on a tick whose position snapshot is non-zero on_price places no
\* entry market order through _start_position, a flat local state included.
C30_NoNewBasketOnOpenPosition ==
    (obs.op = "tick" /\ obs.posOk /\ obs.pos.amt # 0) =>
        \A i \in 1..Len(obs.calls) :
            ~(obs.calls[i].op = "market" /\ obs.calls[i].via = "start")

\* the smallest level whose cumulative quantity covers abs_qty, max_levels
\* when none does
CoveringLevel(abs_qty) ==
    IF \E L \in 0..MaxLevels : CumQty(L) >= abs_qty
    THEN CHOOSE L \in 0..MaxLevels :
            /\ CumQty(L) >= abs_qty
            /\ \A K \in 0..(L - 1) : CumQty(K) < abs_qty
    ELSE MaxLevels

\* the number of reduce-only orders of a list of open orders
ReduceOnlyCount(orders) == Cardinality({ i \in 1..Len(orders) : orders[i].reduceOnly })

\* C31: when the position is not zero and the local state has no direction,
\* reconcile_position sets direction long for a positive and short for a
\* negative quantity and levels_filled to the smallest level whose cumulative
\* quantity covers the position, capped at max_levels, or to
\* min(R, max_levels) when the number R of open reduce-only orders is larger.
C31_InferredDirectionAndLevel ==
    (obs.op = "reconcile" /\ obs.snap.pos.amt # 0 /\ obs.before.direction = "none") =>
        LET L == CoveringLevel(Abs(obs.snap.pos.amt))
            R == ReduceOnlyCount(obs.snap.orders)
        IN  /\ state.direction = IF obs.snap.pos.amt > 0 THEN "long" ELSE "short"
            /\ state.levels_filled = IF R > L THEN Min(R, MaxLevels) ELSE L

\* C31's case: a long position of one level with more reduce-only orders open
\* than max_levels was adopted at max_levels.
C31_Witness ==
    /\ obs.op = "reconcile"
    /\ obs.before = EmptyState
    /\ obs.snap.pos.amt = CumQty(1)
    /\ ReduceOnlyCount(obs.snap.orders) > MaxLevels
    /\ state.direction = "long"
    /\ state.levels_filled = MaxLevels

\* C32: after reconcile_position has rebuilt a state without direction from
\* a position that is not zero, last_entry_price is the entry price of the
\* snapshot and next_entry_price is one spacing above it for a short and
\* below it for a long.
C32_EntryPricesFromSnapshot ==
    (obs.op = "reconcile" /\ obs.snap.pos.amt # 0 /\ obs.snap.pos.entry # 0
       /\ obs.before.direction = "none") =>
        /\ state.last_entry_price = Some(obs.snap.pos.entry)
        /\ state.next_entry_price =
              Some(IF state.direction = "short" THEN obs.snap.pos.entry + GridSpacing
                   ELSE obs.snap.pos.entry - GridSpacing)

\* the trades of a history that are exits of a basket of this direction
ExitsOf(h, direction) ==
    { i \in 1..Len(h) : IF direction = "long" THEN ~h[i].buyer ELSE h[i].buyer }

\* the order ids of the trades of a history made at or before its last exit
OidsUpToLastExit(h, direction) ==
    { h[i].oid : i \in { j \in 1..Len(h) :
                           \E x \in ExitsOf(h, direction) : h[j].time <= h[x].time } }

\* C33: entry order ids populated from the trade history never include the
\* order id of a trade made at or before the last opposite-direction trade,
\* for every trade history, one whose most recent trade is an exit included.
C33_EntriesAfterLastExit ==
    (obs.op = "populate" /\ ~IsNone(obs.tr)) =>
        \A i \in 1..Len(state.entry_order_ids) :
            state.entry_order_ids[i] \notin OidsUpToLastExit(Val(obs.tr), state.direction)

\* the quantity of the same-direction trades of a history made after its
\* last exit
RECURSIVE QtySum(_, _)
QtySum(h, S) ==
    IF S = {} THEN 0
    ELSE LET i == CHOOSE x \in S : TRUE IN h[i].qty + QtySum(h, S \ {i})

EntryQtyAfterLastExit(h, direction) ==
    QtySum(h, { i \in 1..Len(h) :
                  /\ i \notin ExitsOf(h, direction)
                  /\ \A x \in ExitsOf(h, direction) : h[i].time > h[x].time })

\* the trade history gives nothing to populate from: the query failed, it
\* returned no trades, or the entries after the last exit stay more than 1 %
\* below the position size
NothingToPopulate(tr, qty, direction) ==
    \/ IsNone(tr)
    \/ Val(tr) = << >>
    \/ 100 * EntryQtyAfterLastExit(Val(tr), direction) < 99 * qty

\* C34: when the trade-history query fails, returns no trades, or the
\* same-direction trades after the last exit cannot reach the position size
\* within 1 %, _populate_entries_from_trades returns without raising and
\* leaves entry_order_ids, last_entry_price, next_entry_price, basket_open_ts
\* and basket_id as they were.
C34_FailedPopulateLeavesState ==
    (obs.op = "populate" /\ NothingToPopulate(obs.tr, obs.qty, obs.before.direction)) =>
        /\ obs.exc = "none"
        /\ state.entry_order_ids = obs.before.entry_order_ids
        /\ state.last_entry_price = obs.before.last_entry_price
        /\ state.next_entry_price = obs.before.next_entry_price
        /\ state.basket_open_ts = obs.before.basket_open_ts
        /\ state.basket_id = obs.before.basket_id

\* the mark price has crossed the next entry price of an ACTIVE state in the
\* adverse direction
CrossedAdversely(st, mark) ==
    /\ st.direction # "none"
    /\ ~IsNone(st.next_entry_price)
    /\ IF st.direction = "short" THEN mark >= Val(st.next_entry_price)
       ELSE mark <= Val(st.next_entry_price)

\* C35: on a tick that finds the state ACTIVE below max_levels, with the
\* position still open and the mark price across next_entry_price in the
\* adverse direction, the basket is extended, whether the band indicator has
\* a full window or not.
C35_ExtensionNeedsNoBands ==
    [][ (/\ pc = "loop" /\ obs'.op = "tick"
         /\ state.direction # "none"
         /\ state.levels_filled < MaxLevels
         /\ state.entry_order_ids # << >>
         /\ ~IsNone(state.last_entry_price)
         /\ state.next_entry_price =
               Some(IF state.direction = "short" THEN Val(state.last_entry_price) + GridSpacing
                    ELSE Val(state.last_entry_price) - GridSpacing)
         /\ obs'.posOk /\ obs'.pos.amt # 0
         /\ CrossedAdversely(state, obs'.pos.mark))
        => \E i \in 1..Len(obs'.calls) :
               obs'.calls[i].op = "market" /\ obs'.calls[i].via = "extend" ]_vars

\* the entry market orders of a call log
EntryOrders(calls) ==
    { i \in 1..Len(calls) : calls[i].op = "market" /\ calls[i].via \in { "start", "extend" } }

\* C36: one on_price call raises levels_filled by at most 1 and places at
\* most one entry market order, for every mark price and every fill price.
C36_OneLevelPerTick ==
    [][ obs'.op = "tick" =>
          /\ state'.levels_filled <= state.levels_filled + 1
          /\ Cardinality(EntryOrders(obs'.calls)) <= 1 ]_vars

\* C37: when the state of a basket built by one open and k - 1 extensions,
\* each filled for the quantity requested, is lost, reconcile_position on the
\* exchange's position gives the direction and levels_filled = k again, also
\* when the minimum notional raised the quantity of an order.
C37_RebuildRecoversLevel ==
    obs.op = "recover" =>
        /\ state.direction = twin.direction
        /\ state.levels_filled = twin.k

\* C38: once a basket has a basket_id other than 0, every later state of the
\* running engine has the same basket_id until the basket is closed and the
\* state is reset.
C38_BasketIdStable ==
    [][ (/\ pc = "loop" /\ pc' = "loop"
         /\ state.basket_id # 0
         /\ obs'.resets = 0
         /\ state'.direction # "none")
        => state'.basket_id = state.basket_id ]_vars

\* C39: with period <= k * k + 1 no tick price lies strictly outside the
\* bands of the window it was added to, so on_price never meets its entry
\* test, for every price sequence.
C39_NoBreachInShortWindow ==
    twin.period <= twin.k * twin.k + 1 => ~twin.opens

\* C40: after any sequence of add calls the window holds the last
\* min(n, period) samples in the order they came, and the running sum and sum
\* of squares are the sum and sum of squares of the samples in the window
\* (in exact arithmetic); 10, 10, 10 and then 13 with period 3 give the window
\* 10, 10, 13 with mean 11 and variance 2.
C40_RunningSumsRefineRescan ==
    /\ LET n == Len(twin.hist)
           m == Min(n, Period)
       IN  /\ bb.window = SubSeq(twin.hist, n - m + 1, n)
           /\ bb.sum = SumOf(bb.window)
           /\ bb.sumsq = SumSqOf(bb.window)
    /\ LET b == bb_add(seed_indicator(NewBB, << 10, 10, 10 >>), 13)
       IN  /\ b.window = << 10, 10, 13 >>
           /\ b.sum = 11 * Period
           /\ Period * b.sumsq - b.sum * b.sum = 2 * Period * Period

\* C40's case: 10, 10, 10 and 13 were added and the first 10 was dropped.
C40_Witness ==
    /\ twin.hist = << 10, 10, 10, 13 >>
    /\ bb.window = << 10, 10, 13 >>
    /\ bb.sum = 33
    /\ bb.sumsq = 369
=============================================================================
